---- MODULE Spec2Model ----
(***************************************************************************)
(* Travel Helper (streamlit_app.py): the rule-based plan generator, the    *)
(* optional place-search enrichment and the export tab, as a state machine *)
(* of one Streamlit script run, plus specifications that exercise the pure *)
(* functions (infer_region, generate_plan) over bounded input sets.        *)
(*                                                                         *)
(* Text is kept as TLA+ strings; characters outside ASCII in the source's  *)
(* literals are transliterated (the lexer accepts ASCII only).             *)
(***************************************************************************)
EXTENDS Integers, Sequences, FiniteSets, TLC

VARIABLES
    form,       \* widget values of the current script run
    pc,         \* position of the script run
    inp,        \* TravelInput built by the handler (None before)
    plan,       \* GeneratedPlan bound to the name `plan` (None before)
    enr,        \* locals of enrich_plan_with_api while it runs
    http,       \* HTTP requests issued in this run, in order
    cache,      \* st.cache_data entries: call key -> returned value
    runs,       \* script runs started by the Generate button so far
    messages,   \* st.error / st.warning / uncaught exception, in order
    calls,      \* functions invoked in this run, in order
    downloads,  \* files offered by st.download_button in this run
    api,        \* calls of the cached API functions in this run, in order
    tables,     \* the module-level lookup tables as this script run holds them
    now,        \* the clock of st.cache_data, in seconds
    arg,        \* argument of a direct call of a pure function
    ret         \* its result (None before the call)

vars == <<form, pc, inp, plan, enr, http, cache, runs, messages, calls, downloads, api, tables, now,
          arg, ret>>

appvars == <<form, pc, inp, plan, enr, http, cache, runs, messages, calls, downloads, api, tables, now>>

None == [none |-> TRUE]

EmptyDict == [k \in {} |-> <<>>]

--------------------------------------------------------------------------
(* Bounds *)

\* a destination of the region specification is made of at most MaxParts words
MaxParts == 2
\* dates are day numbers 1..MaxDay
MaxDay == 8
\* a checklist passed to uniq_items directly has at most MaxItems entries
MaxItems == 3
\* the Generate button is clicked at most MaxRuns times
MaxRuns == 2

--------------------------------------------------------------------------
(* Utility: lines 128-149 *)

Max(a, b) == IF a >= b THEN a ELSE b
Min(a, b) == IF a <= b THEN a ELSE b

clamp(n, lo, hi) == Max(lo, Min(hi, n))

Ch(s, i) == SubSeq(s, i, i)

IsSpace(c) == c \in {" ", "\t", "\n"}

\* str.lower() on one character (ASCII letters)
TO_LOWER ==
    ("A" :> "a") @@ ("B" :> "b") @@ ("C" :> "c") @@ ("D" :> "d") @@ ("E" :> "e") @@ ("F" :> "f")
    @@ ("G" :> "g") @@ ("H" :> "h") @@ ("I" :> "i") @@ ("J" :> "j") @@ ("K" :> "k") @@ ("L" :> "l")
    @@ ("M" :> "m") @@ ("N" :> "n") @@ ("O" :> "o") @@ ("P" :> "p") @@ ("Q" :> "q") @@ ("R" :> "r")
    @@ ("S" :> "s") @@ ("T" :> "t") @@ ("U" :> "u") @@ ("V" :> "v") @@ ("W" :> "w") @@ ("X" :> "x")
    @@ ("Y" :> "y") @@ ("Z" :> "z")

LowerCh(c) == IF c \in DOMAIN TO_LOWER THEN TO_LOWER[c] ELSE c

RECURSIVE lower(_)
lower(s) == IF Len(s) = 0 THEN "" ELSE LowerCh(Ch(s, 1)) \o lower(SubSeq(s, 2, Len(s)))

\* str.strip(): leading and trailing whitespace removed
RECURSIVE lstrip(_)
lstrip(s) == IF Len(s) > 0 /\ IsSpace(Ch(s, 1)) THEN lstrip(SubSeq(s, 2, Len(s))) ELSE s

RECURSIVE rstrip(_)
rstrip(s) == IF Len(s) > 0 /\ IsSpace(Ch(s, Len(s))) THEN rstrip(SubSeq(s, 1, Len(s) - 1)) ELSE s

strip(s) == rstrip(lstrip(s))

\* str.split(): the maximal runs of non-whitespace characters, in order
RECURSIVE SplitFrom(_, _, _, _)
SplitFrom(s, i, cur, acc) ==
    IF i > Len(s)
    THEN IF cur = "" THEN acc ELSE Append(acc, cur)
    ELSE IF IsSpace(Ch(s, i))
         THEN SplitFrom(s, i + 1, "", IF cur = "" THEN acc ELSE Append(acc, cur))
         ELSE SplitFrom(s, i + 1, cur \o Ch(s, i), acc)

split(s) == SplitFrom(s, 1, "", <<>>)

\* sep.join(words)
RECURSIVE join(_, _)
join(sep, words) ==
    IF Len(words) = 0 THEN ""
    ELSE IF Len(words) = 1 THEN words[1]
    ELSE words[1] \o sep \o join(sep, Tail(words))

\* line 132
normalize_text(s) == join(" ", split(lower(strip(s))))

\* Python's `k in d` on strings
Contains(k, d) == \E i \in 1..(Len(d) - Len(k) + 1) : SubSeq(d, i, i + Len(k) - 1) = k

\* any(k in d for k in kws)
AnyIn(kws, d) == \E i \in 1..Len(kws) : Contains(kws[i], d)

\* the nights of the trip rather than its days
trip_length_days_exclusive(start, end) == Max(1, end - start)

\* line 136
trip_length_days(start, end) == Max(1, (end - start) + 1)

ChecklistItem(item, why, tags) == [item |-> item, why |-> why, tags |-> tags]

\* lines 141-149: the loop over items, with the set `seen` and the list `out`
RECURSIVE uniq_loop(_, _, _)
uniq_loop(items, seen, out) ==
    IF Len(items) = 0 THEN out
    ELSE LET it == Head(items)
             key == normalize_text(it.item)
         IN IF key \notin seen
            THEN uniq_loop(Tail(items), seen \cup {key}, Append(out, it))
            ELSE uniq_loop(Tail(items), seen, out)

\* the list returned as it came
uniq_items_keeping_all(items) == items

uniq_items(items) == uniq_loop(items, {}, <<>>)

--------------------------------------------------------------------------
(* Small internal datasets: lines 99-122, and the keyword lists of         *)
(* infer_region (lines 154-170)                                            *)

RIDE_HAILING_BY_REGION_KEYS == <<"uk_ie", "eu", "us_canada", "latam", "mena", "south_asia", "se_asia", "east_asia", "oceania", "unknown">>
RIDE_HAILING_BY_REGION ==
    ("uk_ie" :> <<"Uber (varies by city)", "Bolt (some cities)", "Free Now (some cities)", "Local licensed minicabs">>)
    @@ ("eu" :> <<"Bolt (many cities)", "Uber (many cities)", "Free Now (some cities)", "Licensed taxi ranks">>)
    @@ ("us_canada" :> <<"Uber", "Lyft", "Airport shuttles", "Licensed taxis">>)
    @@ ("latam" :> <<"Uber (some cities)", "DiDi (some cities)", "Cabify (some cities)", "Use official taxi apps where available">>)
    @@ ("mena" :> <<"Careem (some cities)", "Uber (some cities)", "Official airport taxis", "Hotel-arranged transfers">>)
    @@ ("south_asia" :> <<"Uber (some cities)", "Ola (some cities)", "Official prepaid taxi counters (airports)", "Hotel transfers">>)
    @@ ("se_asia" :> <<"Grab (many countries)", "Gojek (some countries)", "Official airport taxis", "Metered taxis where common">>)
    @@ ("east_asia" :> <<"Official taxi services", "Public transport apps", "Some cities: Uber (limited)", "Hotel-arranged cars">>)
    @@ ("oceania" :> <<"Uber", "Local taxi companies", "Airport shuttles", "Public transit cards/passes">>)
    @@ ("unknown" :> <<"Official airport taxi", "Hotel-arranged transfer", "Licensed taxi ranks", "Reputable local ride-hailing app">>)
FOOD_STARTERS_BY_COUNTRY_KEYS == <<"japan", "italy", "mexico", "thailand", "france", "india", "spain", "vietnam", "greece">>
FOOD_STARTERS_BY_COUNTRY ==
    ("japan" :> <<"Ramen", "Sushi", "Okonomiyaki", "Tempura", "Kaiseki (if splurging)">>)
    @@ ("italy" :> <<"Regional pasta specialty", "Pizza (local style)", "Gelato", "Aperitivo snacks", "Espresso + pastry">>)
    @@ ("mexico" :> <<"Tacos (regional)", "Mole (where common)", "Pozole", "Tamales", "Street elote/esquites">>)
    @@ ("thailand" :> <<"Pad kra pao", "Som tam", "Tom yum", "Khao soi (north)", "Mango sticky rice">>)
    @@ ("france" :> <<"Boulangerie bread/pastries", "Cheese plate", "Regional stew/specialty", "Crepes (if common)", "Local wine (optional)">>)
    @@ ("india" :> <<"Regional thali", "Chaat", "Dosa (south)", "Biryani (where famous)", "Masala chai">>)
    @@ ("spain" :> <<"Tapas crawl", "Paella (where typical)", "Jamon", "Tortilla espanola", "Churros con chocolate">>)
    @@ ("vietnam" :> <<"Pho", "Banh mi", "Bun cha", "Goi cuon (fresh rolls)", "Ca phe sua da">>)
    @@ ("greece" :> <<"Souvlaki/gyros", "Greek salad", "Seafood (coast/islands)", "Moussaka", "Baklava">>)
\* line 154
KW_uk_ie == <<"uk", "united kingdom", "england", "scotland", "wales", "northern ireland", "ireland", "dublin", "london">>
\* line 156
KW_eu == <<"france", "germany", "italy", "spain", "portugal", "netherlands", "belgium", "austria", "switzerland", "sweden", "norway", "denmark", "finland", "poland", "czech", "hungary", "greece", "croatia", "romania">>
\* line 158
KW_us_canada == <<"united states", "usa", "new york", "los angeles", "san francisco", "canada", "toronto", "vancouver", "montreal">>
\* line 160
KW_latam == <<"mexico", "brazil", "argentina", "chile", "colombia", "peru", "costa rica">>
\* line 162
KW_mena == <<"uae", "dubai", "abu dhabi", "qatar", "doha", "saudi", "riyadh", "jeddah", "egypt", "cairo", "morocco", "marrakesh">>
\* line 164
KW_south_asia == <<"india", "delhi", "mumbai", "bangalore", "pakistan", "lahore", "karachi", "bangladesh", "dhaka", "nepal", "kathmandu", "sri lanka", "colombo">>
\* line 166
KW_se_asia == <<"thailand", "bangkok", "vietnam", "hanoi", "ho chi minh", "philippines", "manila", "indonesia", "jakarta", "bali", "malaysia", "kuala lumpur", "singapore">>
\* line 168
KW_east_asia == <<"japan", "tokyo", "osaka", "kyoto", "china", "beijing", "shanghai", "hong kong", "taiwan", "taipei", "korea", "seoul">>
\* line 170
KW_oceania == <<"australia", "sydney", "melbourne", "new zealand", "auckland", "wellington">>

\* the order in which infer_region tests the lists
REGION_ORDER == <<"uk_ie", "eu", "us_canada", "latam", "mena", "south_asia", "se_asia", "east_asia", "oceania">>

\* infer_region with the last list as the fallback instead of "unknown"
infer_region_no_fallback(destination) ==
    LET d == normalize_text(destination) IN
    IF AnyIn(KW_uk_ie, d) THEN "uk_ie"
    ELSE IF AnyIn(KW_eu, d) THEN "eu"
    ELSE IF AnyIn(KW_us_canada, d) THEN "us_canada"
    ELSE IF AnyIn(KW_latam, d) THEN "latam"
    ELSE IF AnyIn(KW_mena, d) THEN "mena"
    ELSE IF AnyIn(KW_south_asia, d) THEN "south_asia"
    ELSE IF AnyIn(KW_se_asia, d) THEN "se_asia"
    ELSE IF AnyIn(KW_east_asia, d) THEN "east_asia"
    ELSE "oceania"

\* infer_region with the uk_ie test moved behind the Asian lists
infer_region_reordered(destination) ==
    LET d == normalize_text(destination) IN
    IF AnyIn(KW_eu, d) THEN "eu"
    ELSE IF AnyIn(KW_us_canada, d) THEN "us_canada"
    ELSE IF AnyIn(KW_latam, d) THEN "latam"
    ELSE IF AnyIn(KW_mena, d) THEN "mena"
    ELSE IF AnyIn(KW_south_asia, d) THEN "south_asia"
    ELSE IF AnyIn(KW_se_asia, d) THEN "se_asia"
    ELSE IF AnyIn(KW_east_asia, d) THEN "east_asia"
    ELSE IF AnyIn(KW_uk_ie, d) THEN "uk_ie"
    ELSE IF AnyIn(KW_oceania, d) THEN "oceania"
    ELSE "unknown"

\* lines 152-172
infer_region(destination) ==
    LET d == normalize_text(destination) IN
    IF AnyIn(KW_uk_ie, d) THEN "uk_ie"
    ELSE IF AnyIn(KW_eu, d) THEN "eu"
    ELSE IF AnyIn(KW_us_canada, d) THEN "us_canada"
    ELSE IF AnyIn(KW_latam, d) THEN "latam"
    ELSE IF AnyIn(KW_mena, d) THEN "mena"
    ELSE IF AnyIn(KW_south_asia, d) THEN "south_asia"
    ELSE IF AnyIn(KW_se_asia, d) THEN "se_asia"
    ELSE IF AnyIn(KW_east_asia, d) THEN "east_asia"
    ELSE IF AnyIn(KW_oceania, d) THEN "oceania"
    ELSE "unknown"

\* extract_country_key matching the keys against the destination as typed
extract_country_key_raw(destination) ==
    LET d == destination
        hits == {i \in 1..Len(FOOD_STARTERS_BY_COUNTRY_KEYS) : Contains(FOOD_STARTERS_BY_COUNTRY_KEYS[i], d)}
    IN IF hits = {} THEN None
       ELSE [key |-> FOOD_STARTERS_BY_COUNTRY_KEYS[CHOOSE i \in hits : \A j \in hits : i <= j]]

\* lines 175-180: the first key of the table, in table order, found in d
extract_country_key(destination) ==
    LET d == normalize_text(destination)
        hits == {i \in 1..Len(FOOD_STARTERS_BY_COUNTRY_KEYS) : Contains(FOOD_STARTERS_BY_COUNTRY_KEYS[i], d)}
    IN IF hits = {} THEN None
       ELSE [key |-> FOOD_STARTERS_BY_COUNTRY_KEYS[CHOOSE i \in hits : \A j \in hits : i <= j]]

--------------------------------------------------------------------------
(* Core generators (offline baseline): the template entries *)

\* lines 196-226
base_packing ==
    ("Documents & money" :> << ChecklistItem("Passport/ID", "Core ID for travel, hotels, and emergencies", <<"docs">>),
           ChecklistItem("Travel insurance details", "Helps with medical issues, delays, and lost items", <<"docs", "health">>),
           ChecklistItem("Payment cards + some cash", "Backup when terminals fail or tips are cash-based", <<"money">>),
           ChecklistItem("Copies of key docs (digital + paper)", "Recovery if originals are lost", <<"docs">>) >>)
    @@ ("Tech" :> << ChecklistItem("Phone + charger", "Navigation, tickets, communication", <<"tech">>),
           ChecklistItem("Power adapter (if needed)", "Sockets differ by country/region", <<"tech">>),
           ChecklistItem("Power bank", "Long days out; helps with maps and photos", <<"tech">>),
           ChecklistItem("Headphones", "Flights, commutes, calls", <<"tech">>) >>)
    @@ ("Toiletries" :> << ChecklistItem("Toothbrush/toothpaste", "Basics", <<"toiletries">>),
           ChecklistItem("Deodorant", "Basics", <<"toiletries">>),
           ChecklistItem("Sunscreen", "Sun exposure even in cities", <<"toiletries", "health">>),
           ChecklistItem("Hand sanitizer", "Useful in transit", <<"toiletries", "health">>) >>)
    @@ ("Clothing (base)" :> << ChecklistItem("Underwear/socks", "Comfort and hygiene", <<"clothes">>),
           ChecklistItem("Everyday outfit(s)", "Mix-and-match layers", <<"clothes">>),
           ChecklistItem("Sleepwear", "Comfort", <<"clothes">>) >>)
    @@ ("Safety & misc" :> << ChecklistItem("Reusable water bottle", "Hydration + savings", <<"misc", "health">>),
           ChecklistItem("Small day bag", "Day trips, museums, markets", <<"misc">>),
           ChecklistItem("Small lock (optional)", "Hostels/shared storage", <<"safety">>) >>)
\* weather_module, lines 232-236
WEATHER_COLD == << ChecklistItem("Warm jacket", "Core warmth layer", <<"weather", "cold">>),
       ChecklistItem("Thermal base layer", "Warmth without bulk", <<"weather", "cold">>),
       ChecklistItem("Gloves + beanie", "Extremities lose heat fast", <<"weather", "cold">>) >>
\* weather_module, lines 250-254
WEATHER_RAIN == << ChecklistItem("Compact umbrella", "Quick rain coverage", <<"weather", "rain">>),
       ChecklistItem("Light rain jacket", "Hands-free rain protection", <<"weather", "rain">>),
       ChecklistItem("Water-resistant shoes (optional)", "Avoid soaked feet on long days", <<"weather", "rain">>) >>
\* weather_module, lines 238-242
WEATHER_HOT == << ChecklistItem("Breathable tops", "Heat comfort", <<"weather", "hot">>),
       ChecklistItem("Hat/cap", "Sun protection", <<"weather", "hot">>),
       ChecklistItem("Lightweight sandals (optional)", "Heat-friendly footwear", <<"weather", "hot">>) >>
\* weather_module, lines 244-247
WEATHER_MILD == << ChecklistItem("Light jacket", "Evenings can be cooler", <<"weather", "mild">>),
       ChecklistItem("Layering top", "Flexible comfort", <<"weather", "mild">>) >>
\* activity_modules, lines 262-265
ACT_BUSINESS == << ChecklistItem("Business outfit", "Meetings/dinners", <<"activity", "business">>),
       ChecklistItem("Portable steamer (optional)", "Keep clothes crisp if you care", <<"activity", "business">>) >>
\* activity_modules, lines 267-271
ACT_HIKING == << ChecklistItem("Comfortable walking/hiking shoes", "Injury prevention + comfort", <<"activity", "hiking">>),
       ChecklistItem("Lightweight rain/wind layer", "Weather changes fast outdoors", <<"activity", "hiking">>),
       ChecklistItem("Blister care (plasters/moleskin)", "Stops small pain becoming a problem", <<"activity", "hiking", "health">>) >>
\* activity_modules, lines 273-277
ACT_BEACH == << ChecklistItem("Swimwear", "Beach/pool", <<"activity", "beach">>),
       ChecklistItem("Quick-dry towel (optional)", "Convenient on day trips", <<"activity", "beach">>),
       ChecklistItem("Waterproof phone pouch (optional)", "Protects phone near water", <<"activity", "beach", "tech">>) >>
\* activity_modules, lines 279-283
ACT_SNOW == << ChecklistItem("Ski socks", "Warmth + fit", <<"activity", "snow">>),
       ChecklistItem("Neck gaiter/buff", "Wind protection", <<"activity", "snow">>),
       ChecklistItem("Goggles (if not renting)", "Eye protection in snow glare", <<"activity", "snow">>) >>
\* activity_modules, lines 285-288
ACT_NIGHTLIFE == << ChecklistItem("One nicer outfit", "Dress codes vary", <<"activity", "nightlife">>),
       ChecklistItem("Small crossbody/secure wallet", "Crowded areas", <<"activity", "nightlife", "safety">>) >>
\* activity_modules, lines 290-293
ACT_ROADTRIP == << ChecklistItem("Phone mount (optional)", "Safer navigation", <<"activity", "roadtrip">>),
       ChecklistItem("Offline maps downloaded", "Coverage gaps happen", <<"activity", "roadtrip", "tech">>) >>
\* activity_modules, lines 295-298
ACT_CAMPING == << ChecklistItem("Headlamp", "Hands-free light", <<"activity", "camping">>),
       ChecklistItem("Light first-aid kit", "Remote areas", <<"activity", "camping", "health">>) >>
\* activity_modules, lines 301
ACT_LAUNDRY == ChecklistItem("Laundry kit (small detergent sheets)", "Light packing for longer trips", <<"misc">>)
\* health_checklist, lines 307-313
HEALTH_COMMON == << ChecklistItem("Check official travel health advice for your destination", "Guidance changes; use official sources", <<"health">>),
       ChecklistItem("Confirm routine vaccines are up to date", "Baseline protection", <<"health">>),
       ChecklistItem("Carry personal meds in original packaging", "Helps at borders and in emergencies", <<"health">>),
       ChecklistItem("Consider a basic first-aid kit", "Blisters, minor cuts, headaches", <<"health">>),
       ChecklistItem("Verify if proof of vaccination is required for entry/transit", "Some routes have requirements", <<"health", "docs">>) >>
\* health_checklist, lines 315-318
HEALTH_SE_ASIA == << ChecklistItem("Ask a clinician about mosquito-borne illness prevention", "Repellent + behavior planning", <<"health">>),
       ChecklistItem("Food/water hygiene plan", "Reduce stomach issues", <<"health">>) >>
\* health_checklist, lines 319-322
HEALTH_SOUTH_ASIA == << ChecklistItem("Ask a clinician about stomach illness prevention", "Hygiene and contingency meds", <<"health">>),
       ChecklistItem("Heat and hydration strategy", "High temps can be risky", <<"health">>) >>
\* health_checklist, lines 323-326
HEALTH_LATAM == << ChecklistItem("Ask a clinician about mosquito-borne illness prevention", "Repellent + clothing", <<"health">>),
       ChecklistItem("Altitude planning (if relevant)", "Some areas require acclimatization", <<"health">>) >>
\* health_checklist, lines 327-327
HEALTH_MENA == << ChecklistItem("Heat and sun plan", "Hydration + shade + sunscreen", <<"health">>) >>
\* health_checklist, lines 328-328
HEALTH_UNKNOWN == << ChecklistItem("If unsure, consult a travel clinic 4-8 weeks before travel", "Some vaccines need time/boosters", <<"health">>) >>
\* generate_plan, lines 424-428
CARRY_ON_ITEMS == << ChecklistItem("Solid toiletries (or <100ml liquids)", "Avoid liquid limits issues", <<"luggage">>),
       ChecklistItem("Wear bulkiest shoes on travel day", "Saves bag space", <<"luggage">>),
       ChecklistItem("One versatile jacket", "Reduces overpacking", <<"luggage">>) >>
\* generate_plan, lines 432
ACCESSIBILITY_ITEM == ChecklistItem("Any mobility aids / supports you rely on", "Consistency and comfort", <<"accessibility">>)

--------------------------------------------------------------------------
(* Core generators: the functions *)

\* dict.setdefault(k, []).extend(v)
setdefault_extend(d, k, v) ==
    IF k \in DOMAIN d THEN [d EXCEPT ![k] = @ \o v] ELSE d @@ (k :> v)

\* for k, v in other.items(): d.setdefault(k, []).extend(v)
RECURSIVE merge_into(_, _)
merge_into(d, other) ==
    IF DOMAIN other = {} THEN d
    ELSE LET k == CHOOSE x \in DOMAIN other : TRUE
         IN merge_into(setdefault_extend(d, k, other[k]), [x \in DOMAIN other \ {k} |-> other[x]])

\* weather_module with the rain test written as rain > 60
weather_module_above_60(weather, rain) ==
    LET feel == IF weather = "Cold" THEN WEATHER_COLD
                ELSE IF weather = "Hot" THEN WEATHER_HOT
                ELSE WEATHER_MILD
    IN "Weather add-ons" :> (feel \o (IF rain > 60 THEN WEATHER_RAIN ELSE <<>>))

\* lines 229-255
weather_module(weather, rain) ==
    LET feel == IF weather = "Cold" THEN WEATHER_COLD
                ELSE IF weather = "Hot" THEN WEATHER_HOT
                ELSE WEATHER_MILD
    IN "Weather add-ons" :> (feel \o (IF rain >= 60 THEN WEATHER_RAIN ELSE <<>>))

\* lines 258-303
activity_modules(activities, trip_days, trip_style) ==
    "Activity add-ons" :>
       (   (IF "Business" \in activities THEN ACT_BUSINESS ELSE <<>>)
        \o (IF "Hiking" \in activities THEN ACT_HIKING ELSE <<>>)
        \o (IF "Beach" \in activities \/ "Water sports" \in activities THEN ACT_BEACH ELSE <<>>)
        \o (IF "Ski/Snow" \in activities THEN ACT_SNOW ELSE <<>>)
        \o (IF "Nightlife" \in activities THEN ACT_NIGHTLIFE ELSE <<>>)
        \o (IF "Road trip" \in activities THEN ACT_ROADTRIP ELSE <<>>)
        \o (IF "Camping" \in activities THEN ACT_CAMPING ELSE <<>>)
        \o (IF trip_days >= 7 /\ trip_style # "Luxury" THEN <<ACT_LAUNDRY>> ELSE <<>>) )

\* lines 314-329
region_prompts ==
       ("se_asia" :> HEALTH_SE_ASIA)
    @@ ("south_asia" :> HEALTH_SOUTH_ASIA)
    @@ ("latam" :> HEALTH_LATAM)
    @@ ("mena" :> HEALTH_MENA)
    @@ ("unknown" :> HEALTH_UNKNOWN)

\* health_checklist giving the prompts of every region instead of the
\* destination's
health_checklist_all_regions(region) ==
       ("Health & vaccines (checklist)" :> HEALTH_COMMON)
    @@ ("Destination prompts (verify with clinician)" :>
            (HEALTH_SE_ASIA \o HEALTH_SOUTH_ASIA \o HEALTH_LATAM \o HEALTH_MENA \o HEALTH_UNKNOWN))

\* lines 306-333
health_checklist(region) ==
       ("Health & vaccines (checklist)" :> HEALTH_COMMON)
    @@ ("Destination prompts (verify with clinician)" :>
            (IF region \in DOMAIN region_prompts THEN region_prompts[region] ELSE <<>>))

\* lines 336-364
places_to_visit(activities, destination) ==
    LET d == strip(destination)
        ideas ==
               (IF "Museums/Art" \in activities
                THEN <<"One flagship museum + one small gallery.", "Check late-night openings/free entry windows.">> ELSE <<>>)
            \o (IF "Food tour" \in activities
                THEN <<"Market visit early in the trip.", "Street-food area with high turnover + visible cooking.">> ELSE <<>>)
            \o (IF "Hiking" \in activities
                THEN <<"Half-day hike first; then full-day route.", "Download offline trail maps; check daylight hours.">> ELSE <<>>)
            \o (IF "Beach" \in activities
                THEN <<"One calm beach (morning) + one lively beach (afternoon).", "Pick a sunset spot.">> ELSE <<>>)
            \o (IF "Theme parks" \in activities
                THEN <<"Buy timed-entry tickets early if needed.", "Arrive before opening for first rides.">> ELSE <<>>)
    IN    ("Ideas based on your interests" :>
              (IF ideas = <<>>
               THEN <<"Each day: 1 landmark, 1 local experience, 1 nature break (park/river).">>
               ELSE ideas))
       @@ ("Easy wins anywhere" :>
              << "Do a walking tour on day 1 (fast orientation).",
                 "Pick one neighborhood to wander with no agenda.",
                 "Bookmark 2-3 indoor options for bad weather." >>)
       @@ ("Destination prompts" :>
              << "Search: 'best neighborhoods in " \o d \o "' and save 2-3 to explore.",
                 "Search: 'day trips from " \o d \o "' and pick one that matches your pace.",
                 "Search: 'local events in " \o d \o " during your dates'." >>)

\* lines 367-384
transport_guide(region, destination) ==
    LET region_apps == IF region \in DOMAIN RIDE_HAILING_BY_REGION
                       THEN RIDE_HAILING_BY_REGION[region]
                       ELSE RIDE_HAILING_BY_REGION["unknown"]
        d == strip(destination)
    IN    ("Taxi / ride options" :> region_apps)
       @@ ("Safety checklist" :>
              << "Prefer official taxi ranks or app-dispatched rides.",
                 "If street taxis: confirm meter or agree price before starting.",
                 "Share trip details; sit in back if solo.",
                 "At airports: use official/prepaid counters or hotel transfers." >>)
       @@ ("Destination prompts" :>
              << "Search: 'official taxi number in " \o d \o "' and save it.",
                 "Search: 'airport to city center transport " \o d \o "' (compare train/bus/taxi).",
                 "Download the local public transit app." >>)

\* lines 400-407
GENERIC_STARTERS ==
    << "Signature stew/soup of the region",
       "Famous street-food item",
       "Local dessert/pastry",
       "Common breakfast item",
       "Seasonal specialty (ask what's best right now)" >>

\* food_guide testing the dietary note as typed at line 394
food_guide_unstripped_note(destination, dietary_notes) ==
    LET key == extract_country_key(destination)
        starter == IF key # None /\ key.key \in DOMAIN FOOD_STARTERS_BY_COUNTRY
                   THEN FOOD_STARTERS_BY_COUNTRY[key.key] ELSE <<>>
        prompts ==
            << "Ask locals: 'What's the one dish this city does best?'",
               "Try: one market meal, one street snack, one sit-down specialty." >>
            \o (IF dietary_notes # "" THEN <<"Diet note: " \o strip(dietary_notes)>> ELSE <<>>)
    IN IF starter # <<>>
       THEN ("Local foods (starter list)" :> starter) @@ ("Food game plan" :> prompts)
       ELSE ("Local foods (starter list)" :> GENERIC_STARTERS) @@ ("Food game plan" :> prompts)

\* lines 387-409
food_guide(destination, dietary_notes) ==
    LET key == extract_country_key(destination)
        starter == IF key # None /\ key.key \in DOMAIN FOOD_STARTERS_BY_COUNTRY
                   THEN FOOD_STARTERS_BY_COUNTRY[key.key] ELSE <<>>
        prompts ==
            << "Ask locals: 'What's the one dish this city does best?'",
               "Try: one market meal, one street snack, one sit-down specialty." >>
            \o (IF strip(dietary_notes) # "" THEN <<"Diet note: " \o strip(dietary_notes)>> ELSE <<>>)
    IN IF starter # <<>>
       THEN ("Local foods (starter list)" :> starter) @@ ("Food game plan" :> prompts)
       ELSE ("Local foods (starter list)" :> GENERIC_STARTERS) @@ ("Food game plan" :> prompts)

\* lines 445-450
REMINDERS ==
    << "Download offline maps + save key addresses (hotel, embassy, venues).",
       "Set up roaming/eSIM plan before departure.",
       "Enable contactless payments; consider notifying your bank.",
       "Save local emergency number + key contacts." >>

\* lines 85-93
GeneratedPlan(packing, health, places, transport, food, reminders) ==
    [packing |-> packing, health |-> health, places |-> places, transport |-> transport,
     food |-> food, enriched |-> EmptyDict, reminders |-> reminders]

\* lines 416-434: packing before deduplication
assemble_packing(i) ==
    LET days == trip_length_days(i.start_date, i.end_date)
        p1 == merge_into(base_packing, weather_module(i.weather, i.rain_likelihood))
        p2 == merge_into(p1, activity_modules(i.activities, days, i.trip_style))
        p3 == IF i.luggage = "Carry-on only"
              THEN setdefault_extend(p2, "Carry-on strategy", CARRY_ON_ITEMS) ELSE p2
        p4 == IF strip(i.mobility_notes) # ""
              THEN setdefault_extend(p3, "Accessibility", <<ACCESSIBILITY_ITEM>>) ELSE p3
    IN p4

\* lines 412-451
generate_plan(i) ==
    LET region == infer_region(i.destination)
        assembled == assemble_packing(i)
        packing == [cat \in DOMAIN assembled |-> uniq_items(assembled[cat])]
    IN GeneratedPlan(packing,
                     health_checklist(region),
                     places_to_visit(i.activities, i.destination),
                     transport_guide(region, i.destination),
                     food_guide(i.destination, i.dietary_notes),
                     REMINDERS)

--------------------------------------------------------------------------
(* The form: widgets of lines 809-861 and their default values *)

PROVIDERS == {"Offline (no API)", "OpenTripMap", "Google Places (New)"}
TRIP_STYLES == {"Budget", "Mid-range", "Luxury"}
LUGGAGE_TYPES == {"Backpack", "Carry-on only", "Checked bag"}
WEATHER_FEELS == {"Cold", "Mild", "Hot"}
ACTIVITIES ==
    {"City exploring", "Business", "Beach", "Hiking", "Ski/Snow", "Nightlife", "Museums/Art",
     "Food tour", "Theme parks", "Road trip", "Camping", "Water sports"}

\* lines 99-122: the two tables the module level builds
TABLES ==
    [RIDE_HAILING_BY_REGION |-> RIDE_HAILING_BY_REGION,
     FOOD_STARTERS_BY_COUNTRY |-> FOOD_STARTERS_BY_COUNTRY]

\* date.today(), as a day number
Today == 1

DefaultForm ==
    [provider |-> "Offline (no API)", api_key |-> "", radius_km |-> 5, max_results |-> 8,
     cost_saver |-> TRUE,
     departure |-> "", travelers |-> 1, trip_style |-> "Mid-range", luggage |-> "Carry-on only",
     destination |-> "", start_date |-> Today, end_date |-> Today, accommodation |-> "Hotel",
     weather |-> "Mild", rain_likelihood |-> 30, activities |-> {"City exploring"},
     dietary_notes |-> "", mobility_notes |-> "", health_notes |-> "", budget_notes |-> "",
     custom_food |-> ""]

\* lines 49-65 and 873-889: the TravelInput the handler builds from the widgets
TravelInput(f) ==
    [departure |-> strip(f.departure),
     destination |-> strip(f.destination),
     start_date |-> f.start_date,
     end_date |-> f.end_date,
     travelers |-> f.travelers,
     trip_style |-> f.trip_style,
     accommodation |-> f.accommodation,
     luggage |-> f.luggage,
     weather |-> f.weather,
     rain_likelihood |-> f.rain_likelihood,
     activities |-> f.activities,
     dietary_notes |-> strip(f.dietary_notes),
     mobility_notes |-> strip(f.mobility_notes),
     health_notes |-> strip(f.health_notes),
     budget_notes |-> strip(f.budget_notes)]

\* no script run has happened yet
AppQuiescent(f) ==
    /\ form = f
    /\ pc = "idle"
    /\ inp = None
    /\ plan = None
    /\ enr = None
    /\ http = <<>>
    /\ cache = EmptyDict
    /\ runs = 0
    /\ messages = <<>>
    /\ calls = <<>>
    /\ downloads = {}
    /\ api = <<>>
    /\ tables = TABLES
    /\ now = 0

--------------------------------------------------------------------------
(* Direct calls of infer_region over bounded destination strings *)

Words ==
    {"", " ", "Tokyo", "JAPAN", "London", "Phuket", "Thailand", "Paris France", "Cancun,\tMexico",
     "Dubai", "New  Delhi", "Sydney", "new\nyork", "Nairobi", "Osaka japan", "Ukraine"}

RECURSIVE DestinationsOf(_)
DestinationsOf(n) ==
    IF n = 1 THEN Words
    ELSE DestinationsOf(n - 1) \cup {a \o ", " \o b : a \in DestinationsOf(n - 1), b \in Words}

RegionDestinations == DestinationsOf(MaxParts)

InitRegion ==
    /\ AppQuiescent(DefaultForm)
    /\ arg \in RegionDestinations
    /\ ret = None

CallInferRegion ==
    /\ ret = None
    /\ ret' = [fn |-> "infer_region", value |-> infer_region(arg)]
    /\ UNCHANGED <<arg, appvars>>

NextRegion == CallInferRegion

SpecRegion == InitRegion /\ [][NextRegion]_vars

--------------------------------------------------------------------------
(* Direct calls of generate_plan over bounded valid TravelInput values *)

PlanDestinations ==
    {"Tokyo, Japan", "osaka  JAPAN", "Bangkok", "Mumbai", "Lima, Peru", "Cairo", "Nairobi"}

\* (start, end) with end >= start: one-day trips and trips around a week
PlanDates == {<<Today, Today>>, <<2, MaxDay - 1>>, <<1, MaxDay - 1>>}

RainValues == {0, 55, 60, 100}

ActivitySets == {{}, {"Water sports"}, ACTIVITIES}

\* (dietary notes, mobility notes)
PlanNotes == {<<"", "">>, <<" vegan ", "avoid stairs">>}

TravelInputs ==
    {TravelInput([DefaultForm EXCEPT
         !.departure = "London, UK", !.destination = d, !.start_date = dt[1], !.end_date = dt[2],
         !.trip_style = ts, !.luggage = lg, !.weather = w, !.rain_likelihood = r,
         !.activities = a, !.dietary_notes = nt[1], !.mobility_notes = nt[2]]) :
       d \in PlanDestinations, dt \in PlanDates, ts \in TRIP_STYLES, lg \in LUGGAGE_TYPES,
       w \in WEATHER_FEELS, r \in RainValues, a \in ActivitySets,
       nt \in PlanNotes}

InitPlan ==
    /\ AppQuiescent(DefaultForm)
    /\ arg \in TravelInputs
    /\ ret = None

CallGeneratePlan ==
    /\ ret = None
    /\ ret' = [fn |-> "generate_plan", value |-> generate_plan(arg)]
    /\ UNCHANGED <<arg, appvars>>

NextPlan == CallGeneratePlan

SpecPlan == InitPlan /\ [][NextPlan]_vars


--------------------------------------------------------------------------
(* Direct calls of uniq_items over bounded checklists, and of generate_plan *)
(* over the packing lists it deduplicates                                    *)

\* item texts, some of them equal after normalize_text
ItemTexts == {"Passport", "passport ", "  PASSPORT", "Phone  charger", "phone charger", "Umbrella"}

RECURSIVE ChecklistsOf(_)
ChecklistsOf(n) ==
    IF n = 0 THEN {<<>>}
    ELSE ChecklistsOf(n - 1)
         \cup {Append(xs, ChecklistItem(t, "", <<>>)) : xs \in ChecklistsOf(n - 1), t \in ItemTexts}

\* the arguments of a direct call of uniq_items
UniqInputs == {[items |-> xs] : xs \in ChecklistsOf(MaxItems)}

\* requests whose packing lists receive every kind of contribution
UniqTravelInputs ==
    {i \in TravelInputs : i.destination = "Tokyo, Japan" /\ i.trip_style # "Budget"}

InitUniq ==
    /\ AppQuiescent(DefaultForm)
    /\ arg \in UniqInputs \cup UniqTravelInputs
    /\ ret = None

\* uniq_items(items)
CallUniqItems ==
    /\ ret = None
    /\ "items" \in DOMAIN arg
    /\ ret' = [fn |-> "uniq_items", value |-> uniq_items(arg.items)]
    /\ UNCHANGED <<arg, appvars>>

\* uniq_items(uniq_items(items))
CallUniqItemsAgain ==
    /\ ret # None
    /\ ret.fn = "uniq_items"
    /\ ret' = [fn |-> "uniq_items(uniq_items)", value |-> uniq_items(ret.value), once |-> ret.value]
    /\ UNCHANGED <<arg, appvars>>

NextUniq ==
    \/ CallUniqItems
    \/ CallUniqItemsAgain
    \/ ("destination" \in DOMAIN arg /\ CallGeneratePlan)

SpecUniq == InitUniq /\ [][NextUniq]_vars


--------------------------------------------------------------------------
(* Direct calls of food_guide over bounded destinations and dietary notes *)

\* destinations naming the countries of the table that Words leaves out,
\* alone, inside a longer word, and two at a time in either order
FoodWords ==
    {"Rome, Italy", "Goa,  INDIA", "Indiana, USA", "Madrid\tSpain", "Hanoi, Vietnam",
     "Athens, Greece", "Greece and Italy", "Spain or Mexico", "Vietnam & Thailand",
     "Nice, France / Turin, Italy", "Japantown", "Jap an", "italia"}

FoodDestinations == DestinationsOf(MaxParts) \cup FoodWords

DietaryNotes == {"", " ", " \t\n", " vegan ", "no\tnuts"}

FoodInputs == [destination : FoodDestinations, dietary_notes : DietaryNotes]

InitFood ==
    /\ AppQuiescent(DefaultForm)
    /\ arg \in FoodInputs
    /\ ret = None

CallFoodGuide ==
    /\ ret = None
    /\ ret' = [fn |-> "food_guide", value |-> food_guide(arg.destination, arg.dietary_notes)]
    /\ UNCHANGED <<arg, appvars>>

NextFood == CallFoodGuide

SpecFood == InitFood /\ [][NextFood]_vars
--------------------------------------------------------------------------
(* The script runs: lines 806-891.  Streamlit runs the whole script again  *)
(* for every widget event; st.button is True only in the run its click     *)
(* starts, and a widget a run does not render loses its value.             *)

\* (start, end) pairs the date widgets are set to
AppDates == {<<Today, Today>>, <<2, 1>>}

\* a slider reaching one step beyond either end of the percent range
RAIN_SLIDER_beyond_percent == {5 * k : k \in -1..21}

\* line 838: the values of st.slider("Rain likelihood (%)", 0, 100, 30, 5)
RAIN_SLIDER == {5 * k : k \in 0..20}
\* line 813: st.slider("Search radius (km)", 1, 25, 5)
RADIUS_SLIDER == 1..25
\* line 814: st.slider("Max results per section", 3, 20, 8)
MAX_RESULTS_SLIDER == 3..20

\* the two ends of a slider
Lowest(S) == CHOOSE v \in S : \A w \in S : v <= w
Highest(S) == CHOOSE v \in S : \A w \in S : v >= w

ApiKeys == {"", " ", "secret"}
MaxResultsValues == {Lowest(MAX_RESULTS_SLIDER), DefaultForm.max_results}
AppActivities == {{"City exploring"}, {"Museums/Art"}}

ValidForm == [DefaultForm EXCEPT !.departure = " London, UK ", !.destination = "Tokyo, Japan"]

\* forms for the checks of lines 866-871
ValidationForms ==
    {[DefaultForm EXCEPT
         !.departure = dep, !.destination = dst, !.start_date = dt[1], !.end_date = dt[2]] :
       dep \in {"", " London, UK "}, dst \in {" \t", "Tokyo, Japan"}, dt \in AppDates}

\* valid requests with each provider
EnrichForms ==
    {[ValidForm EXCEPT !.provider = pr, !.api_key = k, !.activities = a] :
       pr \in PROVIDERS, k \in ApiKeys, a \in AppActivities}

\* valid offline requests with every slider at its lower end and no API key,
\* and with every slider at its upper end and a key
OfflineForms ==
    {[ValidForm EXCEPT !.api_key = " ", !.radius_km = Lowest(RADIUS_SLIDER),
                       !.max_results = Lowest(MAX_RESULTS_SLIDER),
                       !.rain_likelihood = Lowest(RAIN_SLIDER)],
     [ValidForm EXCEPT !.api_key = "secret", !.radius_km = Highest(RADIUS_SLIDER),
                       !.max_results = Highest(MAX_RESULTS_SLIDER),
                       !.rain_likelihood = Highest(RAIN_SLIDER)]}

AppForms == ValidationForms \cup EnrichForms \cup OfflineForms

\* what the user types into the text area of line 991
CustomFoodTexts == {"Ramen\n\n  Mochi \n"}

\* lines 477-521: ttl=3600 of st.cache_data, in seconds
TTL == 3600
\* the time between two clicks of the Generate button, in seconds: half the
\* ttl, the ttl
Elapsed == {TTL \div 2, TTL}

Init ==
    /\ \E f \in AppForms : AppQuiescent(f)
    /\ arg = None
    /\ ret = None

\* the script run is over and the page waits for the user
RunOver == pc \in {"idle", "stopped", "done", "crashed"}

\* lines 99-122 and 806-863: a script run starts from the top; the module
\* level is executed again and nothing of the previous run survives but the
\* widget values and the st.cache_data cache
FreshRun ==
    /\ inp' = None
    /\ plan' = None
    /\ enr' = None
    /\ http' = <<>>
    /\ messages' = <<>>
    /\ calls' = <<>>
    /\ downloads' = {}
    /\ api' = <<>>
    /\ tables' = TABLES

\* lines 863-865: the click reruns the script with generate = True.  A click
\* that arrives while the rerun asked for by the text area is still pending
\* is served by one run, which has both the click and the typed text.
\* The clock is read by the cache alone, so it is started by the first
\* response the cache stores.
ClickGenerate ==
    /\ RunOver \/ pc = "rerun"
    /\ runs < MaxRuns
    /\ runs' = runs + 1
    /\ pc' = "validate"
    /\ \E dt \in Elapsed :
          /\ now' = IF cache = EmptyDict THEN now ELSE now + dt
    /\ FreshRun
    /\ UNCHANGED <<form, cache, arg, ret>>

\* line 991: the user types into the text area of the food tab, which asks
\* for a rerun of the script
TypeCustomFood ==
    /\ pc \in {"done", "crashed"}
    /\ plan # None
    /\ runs < MaxRuns
    /\ \E t \in CustomFoodTexts \ {form.custom_food} :
          form' = [form EXCEPT !.custom_food = t]
    /\ pc' = "rerun"
    /\ UNCHANGED <<inp, plan, enr, http, cache, runs, messages, calls, downloads, api, tables, now,
                   arg, ret>>

\* lines 863-865 with generate = False: the handler is skipped, the page
\* holds the form alone, and the text area, which this run did not render,
\* loses its value
RerunWithoutGenerate ==
    /\ pc = "rerun"
    /\ pc' = "idle"
    /\ form' = [form EXCEPT !.custom_food = ""]
    /\ FreshRun
    /\ UNCHANGED <<cache, runs, now, arg, ret>>

\* the forms one change of a sidebar widget (lines 811-814) leads to
SidebarEdits(f) == {[f EXCEPT !.max_results = m] : m \in MaxResultsValues \ {f.max_results}}

\* lines 811-814 and 863-865: a changed sidebar widget reruns the script
\* with generate = False
EditSidebar ==
    /\ RunOver
    /\ runs < MaxRuns
    /\ \E f \in SidebarEdits(form) : form' = [f EXCEPT !.custom_food = ""]
    /\ pc' = "idle"
    /\ FreshRun
    /\ UNCHANGED <<cache, runs, now, arg, ret>>

\* the check of line 866 without the .strip()
MissingPlace_unstripped(f) == f.departure = "" \/ f.destination = ""

\* lines 866 and 869: the two checks of the handler
MissingPlace(f) == strip(f.departure) = "" \/ strip(f.destination) = ""
EndBeforeStart(f) == f.end_date < f.start_date

st_error(text) == [kind |-> "error", text |-> text]
st_warning(text) == [kind |-> "warning", text |-> text]

\* lines 866-871: st.error and st.stop on the first failed check
Validate ==
    /\ pc = "validate"
    /\ IF MissingPlace(form)
       THEN /\ messages' = Append(messages, st_error("Please enter both departure and destination."))
            /\ pc' = "stopped"
       ELSE IF EndBeforeStart(form)
       THEN /\ messages' = Append(messages, st_error("End date must be on/after start date."))
            /\ pc' = "stopped"
       ELSE /\ messages' = messages
            /\ pc' = "generate"
    /\ UNCHANGED <<form, inp, plan, enr, http, cache, runs, calls, downloads, api, tables, now,
                   arg, ret>>

\* lines 873-891
GeneratePlan ==
    /\ pc = "generate"
    /\ inp' = TravelInput(form)
    /\ plan' = generate_plan(TravelInput(form))
    /\ calls' = Append(calls, "generate_plan")
    /\ pc' = "enrich"
    /\ UNCHANGED <<form, enr, http, cache, runs, messages, downloads, api, tables, now, arg, ret>>

--------------------------------------------------------------------------
(* API enrichment: lines 457-695.                                          *)
(* A JSON object is a function from its keys; an absent key is a key       *)
(* outside its DOMAIN.  An Optional number is <<>> (None) or <<x>>.        *)

GOOGLE_TEXT_SEARCH_URL == "https://places.googleapis.com/v1/places:searchText"
GOOGLE_NEARBY_SEARCH_URL == "https://places.googleapis.com/v1/places:searchNearby"
OTM_BASE == "https://api.opentripmap.com/0.1/en/places"

Has(d, k) == k \in DOMAIN d

\* d.get(k) or "" for a key holding a string
GetStr(d, k) == IF Has(d, k) THEN d[k] ELSE ""

\* what requests.get / requests.post and r.json() can do to a request, other
\* than deliver a JSON body: a RequestException (a transport error, a
\* timeout, a non-2xx status in raise_for_status) and a body that is not
\* JSON, which r.json() may report as a plain ValueError
HttpFailures ==
    {[kind |-> "RequestException", detail |-> "500 Server Error"],
     [kind |-> "ValueError", detail |-> "Expecting value: line 1 column 1 (char 0)"]}

\* lines 463-474: the RuntimeError message of a failed request
http_error_text(url, o) ==
    IF o.kind = "RequestException"
    THEN "HTTP error calling " \o url \o ": " \o o.detail
    ELSE "Non-JSON response from " \o url

\* an entry served however old it is
cache_hit_without_expiry(key) == key \in DOMAIN cache

\* the cache of st.cache_data holds the value returned for a call and the
\* time it was stored at; an entry is served while it is younger than the ttl
cache_hit(key) == key \in DOMAIN cache /\ now - cache[key].at < TTL

\* lines 477, 484, 496, 502, 521: st.cache_data returns the stored value of a
\* call it holds and otherwise runs the function, which issues one request
ApiOutcomes(key, bodies) ==
    IF cache_hit(key)
    THEN {[kind |-> "cached"]}
    ELSE HttpFailures \cup {[kind |-> "json", body |-> b] : b \in bodies}

\* the value returned by a cached API function, or the error it raises;
\* `value` is what the function makes of the JSON body
ApiResult(key, url, o, value) ==
    IF o.kind = "cached" THEN [ok |-> TRUE, value |-> cache[key].value]
    ELSE IF o.kind = "json" THEN [ok |-> TRUE, value |-> value]
    ELSE [ok |-> FALSE, error |-> http_error_text(url, o)]

\* the request log after the call
HttpAfter(o, request) == IF o.kind = "cached" THEN http ELSE Append(http, request)

\* a version of the cache that also stores the outcome of a failed call
CacheAfter_storing_failures(key, o, value) ==
    IF o.kind = "cached" THEN cache
    ELSE [k \in DOMAIN cache \cup {key} |->
             IF k = key THEN [value |-> value, at |-> now] ELSE cache[k]]

\* the cache after the call: a returned value is stored with the time, an
\* exception stores nothing
CacheAfter(key, o, value) ==
    IF o.kind = "json"
    THEN [k \in DOMAIN cache \cup {key} |->
             IF k = key THEN [value |-> value, at |-> now] ELSE cache[k]]
    ELSE cache

\* the log of calls after the call
ApiAfter(key, o, r) ==
    Append(api, [call |-> key, cached |-> o.kind = "cached", ok |-> r.ok,
                 result |-> IF r.ok THEN r.value ELSE r.error])

\* lines 481 and 493: list(data.get("places", []) or [])
places_of(body) == IF Has(body, "places") THEN body.places ELSE <<>>

\* lines 76-82
PlaceSuggestion(name, address, url, rating, rating_count, category) ==
    [name |-> name, address |-> address, url |-> url, rating |-> rating,
     rating_count |-> rating_count, category |-> category]

\* lines 183-190, for a displayName object as the API documents it
\* ({"text": ..., "languageCode": ...})
safe_get_text_field(v) == IF Has(v, "text") THEN v.text ELSE ""

\* lines 527-535
suggestion_from_google_place(p, category) ==
    LET dn == IF Has(p, "displayName") THEN safe_get_text_field(p.displayName) ELSE ""
        nm == IF dn # "" THEN dn
              ELSE IF GetStr(p, "name") # "" THEN p.name
              ELSE "Unknown"
    IN PlaceSuggestion(nm,
                       GetStr(p, "formattedAddress"),
                       GetStr(p, "googleMapsUri"),
                       IF Has(p, "rating") THEN <<p.rating>> ELSE <<>>,
                       IF Has(p, "userRatingCount") THEN <<p.userRatingCount>> ELSE <<>>,
                       category)

\* ", ".join of the address parts that are present and non-empty (line 544)
address_of(a) ==
    join(", ", SelectSeq(<<GetStr(a, "road"), GetStr(a, "city"), GetStr(a, "state"), GetStr(a, "country")>>,
                         LAMBDA x : x # ""))

\* lines 538-545
suggestion_from_otm_details(d, fallback_name, category) ==
    LET name == IF GetStr(d, "name") # "" THEN d.name
                ELSE IF fallback_name # "" THEN fallback_name
                ELSE "Unknown"
        url == IF GetStr(d, "otm") # "" THEN d.otm ELSE GetStr(d, "wikipedia")
        address == IF Has(d, "address") THEN address_of(d.address) ELSE ""
    IN PlaceSuggestion(name, address, url, <<>>, <<>>, category)

\* lines 687-695
RECURSIVE dedupe_loop(_, _, _)
dedupe_loop(items, seen, out) ==
    IF Len(items) = 0 THEN out
    ELSE LET it == Head(items)
             key == normalize_text(it.category \o "::" \o it.name \o "::" \o it.address)
         IN IF key \notin seen /\ strip(it.name) # ""
            THEN dedupe_loop(Tail(items), seen \cup {key}, Append(out, it))
            ELSE dedupe_loop(Tail(items), seen, out)

dedupe_suggestions(items) == dedupe_loop(items, {}, <<>>)

\* xs[:n]
Take(xs, n) == SubSeq(xs, 1, Min(n, Len(xs)))

\* [f(x) for x in xs]
Map(xs, f(_)) == [k \in 1..Len(xs) |-> f(xs[k])]

\* the two unconditional sections alone, whatever the activities
build_interest_queries_ignoring_activities(i) ==
    LET d == strip(i.destination)
    IN << [section |-> "Top attractions", google_nearby_types |-> <<"tourist_attraction", "park">>,
           google_text |-> "top attractions in " \o d,
           otm_kinds |-> "interesting_places,architecture,cultural,historic"],
          [section |-> "Taxi services", google_nearby_types |-> <<>>,
           google_text |-> "taxi service in " \o d, otm_kinds |-> ""] >>

\* lines 548-598: the sections in insertion order
build_interest_queries(i) ==
    LET d == strip(i.destination)
        Q(section, types, text, kinds) ==
            [section |-> section, google_nearby_types |-> types, google_text |-> text, otm_kinds |-> kinds]
    IN    <<Q("Top attractions", <<"tourist_attraction", "park">>, "top attractions in " \o d,
              "interesting_places,architecture,cultural,historic")>>
       \o (IF "Museums/Art" \in i.activities
           THEN <<Q("Museums & art", <<"museum", "art_gallery">>, "best museums in " \o d, "museums,cultural")>>
           ELSE <<>>)
       \o (IF "Nightlife" \in i.activities
           THEN <<Q("Nightlife", <<"bar", "night_club">>, "best nightlife in " \o d, "nightlife,foods")>>
           ELSE <<>>)
       \o (IF "Food tour" \in i.activities
           THEN <<Q("Food spots", <<"restaurant">>, "best local restaurants in " \o d, "foods")>>
           ELSE <<>>)
       \o (IF "Beach" \in i.activities
           THEN <<Q("Beaches", <<>>, "best beaches near " \o d, "natural,beaches")>>
           ELSE <<>>)
       \o (IF "Hiking" \in i.activities
           THEN <<Q("Hikes & nature", <<"park">>, "best hikes near " \o d, "natural")>>
           ELSE <<>>)
       \o <<Q("Taxi services", <<>>, "taxi service in " \o d, "")>>

\* lines 623-628
FIELD_MASK_COST_SAVER == "places.displayName,places.formattedAddress,places.googleMapsUri"
FIELD_MASK_FULL == "places.displayName,places.formattedAddress,places.googleMapsUri,places.rating,places.userRatingCount"
LOC_FIELD_MASK == "places.displayName,places.formattedAddress,places.location"

\* the messages of lines 622, 631, 654, 657, and of float(None) at lines
\* 633-634 and 658-659
GOOGLE_KEY_REQUIRED == "Google Places API key is required."
GOOGLE_NO_RESULTS == "Google Places Text Search returned no results for destination; try a more specific destination string."
OTM_KEY_REQUIRED == "OpenTripMap API key is required."
OTM_GEONAME_FAILED == "OpenTripMap geoname failed; try a more specific destination string (e.g., 'Paris, France')."
FLOAT_NONE == "float() argument must be a string or a real number, not 'NoneType'"

\* lines 613-618: the locals of enrich_plan_with_api before the provider branch
EnrichLocals(f, i) ==
    [radius_m |-> clamp(f.radius_km, 1, 50) * 1000,
     max_results |-> clamp(f.max_results, 3, 20),
     queries |-> build_interest_queries(i),
     d |-> strip(i.destination),
     field_mask |-> IF f.cost_saver THEN FIELD_MASK_COST_SAVER ELSE FIELD_MASK_FULL,
     lat |-> 0, lon |-> 0,
     idx |-> 1,
     suggestions |-> <<>>,
     hits |-> <<>>,
     enriched |-> EmptyDict]

\* the handler of a version of enrich_plan_with_api that writes each section
\* into plan.enriched as soon as it is fetched
EnrichRaises_keeping_sections(text) ==
    /\ messages' = Append(messages, st_warning(text))
    /\ plan' = IF enr = None THEN plan ELSE [plan EXCEPT !.enriched = enr.enriched]
    /\ enr' = None
    /\ pc' = "tabs"

\* lines 904-905: the exception leaves enrich_plan_with_api, `plan` keeps the
\* value it had before the call, and the message is shown as a warning
EnrichRaises(text) ==
    /\ messages' = Append(messages, st_warning(text))
    /\ plan' = plan
    /\ enr' = None
    /\ pc' = "tabs"

\* a dispatch on the two API providers alone
provider_branch_without_offline(provider) ==
    IF provider = "Google Places (New)" THEN "google" ELSE "otm"

\* lines 610, 620, 652 and 680: the branch enrich_plan_with_api takes
provider_branch(provider) ==
    IF provider = "Offline (no API)" THEN "return"
    ELSE IF provider = "Google Places (New)" THEN "google"
    ELSE IF provider = "OpenTripMap" THEN "otm"
    ELSE "return"

\* a key check that takes a key of spaces for a key
api_key_missing_unstripped(api_key) == api_key = ""

\* lines 620 and 652: `not api_key.strip()`
api_key_missing(api_key) == strip(api_key) = ""

\* lines 893-903 and 610-622, 652-654: the call, up to the first API request
EnrichBegin ==
    /\ pc = "enrich"
    /\ calls' = Append(calls, "enrich_plan_with_api")
    /\ LET branch == provider_branch(form.provider) IN
       IF branch = "return"
       THEN /\ pc' = "tabs"
            /\ UNCHANGED <<plan, enr, messages>>
       ELSE IF branch = "google"
       THEN IF api_key_missing(form.api_key)
            THEN EnrichRaises(GOOGLE_KEY_REQUIRED)
            ELSE /\ enr' = EnrichLocals(form, inp)
                 /\ pc' = "google_geocode"
                 /\ UNCHANGED <<plan, messages>>
       ELSE IF api_key_missing(form.api_key)
            THEN EnrichRaises(OTM_KEY_REQUIRED)
            ELSE /\ enr' = EnrichLocals(form, inp)
                 /\ pc' = "otm_geoname"
                 /\ UNCHANGED <<plan, messages>>
    /\ UNCHANGED <<form, inp, http, cache, runs, downloads, api, tables, now, arg, ret>>

--------------------------------------------------------------------------
(* What the two providers may answer (bounded) *)

GEO_PLACE ==
    [displayName |-> [text |-> "Tokyo"], formattedAddress |-> "Tokyo, Japan",
     location |-> [latitude |-> 35, longitude |-> 139]]
GEO_PLACE_NO_LOCATION ==
    [displayName |-> [text |-> "Tokyo"], formattedAddress |-> "Tokyo, Japan"]

GoogleGeocodeBodies == {EmptyDict, [places |-> <<GEO_PLACE>>], [places |-> <<GEO_PLACE_NO_LOCATION>>]}

PLACE_A ==
    [displayName |-> [text |-> "Senso-ji"], formattedAddress |-> "2-3-1 Asakusa",
     googleMapsUri |-> "https://maps.google.com/?cid=1"]
PLACE_A_AGAIN ==
    [displayName |-> [text |-> "SENSO-JI "], formattedAddress |-> "2-3-1  Asakusa"]
PLACE_B ==
    [displayName |-> [text |-> "Ueno Park"], formattedAddress |-> "Uenokoen", rating |-> 4,
     userRatingCount |-> 120]
PLACE_A_UPPER ==
    [displayName |-> [text |-> "SENSO-JI"], formattedAddress |-> "2-3-1  asakusa"]
PLACE_BLANK == [displayName |-> [text |-> " "]]
PLACE_C == [displayName |-> [text |-> "Tokyo Tower"], formattedAddress |-> "4-2-8 Shibakoen"]

GoogleSearchBodies ==
    {EmptyDict,
     [places |-> <<PLACE_A, PLACE_A_UPPER, PLACE_B, PLACE_A_AGAIN, PLACE_BLANK, PLACE_C>>]}

\* a request is answered the same way whenever it is sent: Nearby Search finds
\* no museum, Text Search finds no taxi service
GoogleNearbyBodies(types) ==
    {b \in GoogleSearchBodies : (b = EmptyDict) <=> ("museum" \in {types[k] : k \in 1..Len(types)})}
GoogleTextBodies(text_query) ==
    {b \in GoogleSearchBodies : (b = EmptyDict) <=> Contains("taxi", text_query)}

OtmGeonameBodies ==
    {[status |-> "OK", lat |-> 35, lon |-> 139], [status |-> "NOT_FOUND"], [status |-> "OK"],
     [status |-> "ERROR", lat |-> 0, lon |-> 0]}

HIT_1 == [xid |-> "N1", name |-> "Senso-ji"]
HIT_2 == [xid |-> "N2", name |-> ""]
HIT_NO_XID == [name |-> "Unnamed"]

OtmRadiusBodies == {<<>>, <<HIT_1, HIT_NO_XID, HIT_2, HIT_1>>}

OtmXidBodies ==
    {[name |-> "Senso-ji", otm |-> "https://opentripmap.com/en/card/N1",
      address |-> [road |-> "Asakusa", city |-> "Tokyo", country |-> "Japan"]],
     EmptyDict}

\* no museum lies within the radius, and the object N2 has no details
OtmRadiusBodiesFor(kinds) == {b \in OtmRadiusBodies : (b = <<>>) <=> Contains("museums", kinds)}
OtmXidBodiesFor(xid) == {b \in OtmXidBodies : (b = EmptyDict) <=> (xid = "N2")}

--------------------------------------------------------------------------
(* Google Places branch: lines 620-650 *)

ThisSection == enr.queries[enr.idx]

\* where the section loop of lines 636-650 goes for section number k
GoogleSectionStart(k) ==
    IF k > Len(enr.queries) THEN "enrich_end"
    ELSE IF enr.queries[k].google_nearby_types # <<>> THEN "google_nearby"
    ELSE "google_text"

\* line 630: `if not loc_places`
no_geocode_result(loc_places) == loc_places = <<>>

\* lines 632-634: float() of a coordinate the first place does not hold
no_location(place) ==
    ~(/\ Has(place, "location")
      /\ Has(place.location, "latitude")
      /\ Has(place.location, "longitude"))

\* lines 629-634: Text Search on the destination itself, and its location
GoogleGeocode ==
    /\ pc = "google_geocode"
    /\ LET key == <<"google_text_search", form.api_key, enr.d, LOC_FIELD_MASK>>
           request == [method |-> "POST", url |-> GOOGLE_TEXT_SEARCH_URL, call |-> key]
       IN \E o \in ApiOutcomes(key, GoogleGeocodeBodies) :
            LET value == IF o.kind = "json" THEN places_of(o.body) ELSE <<>>
                r == ApiResult(key, GOOGLE_TEXT_SEARCH_URL, o, value)
            IN /\ http' = HttpAfter(o, request)
               /\ cache' = CacheAfter(key, o, value)
               /\ api' = ApiAfter(key, o, r)
               /\ IF ~r.ok THEN EnrichRaises(r.error)
                  ELSE IF no_geocode_result(r.value) THEN EnrichRaises(GOOGLE_NO_RESULTS)
                  ELSE IF no_location(r.value[1]) THEN EnrichRaises(FLOAT_NONE)
                  ELSE /\ enr' = [enr EXCEPT !.lat = r.value[1].location.latitude,
                                             !.lon = r.value[1].location.longitude,
                                             !.idx = 1, !.suggestions = <<>>]
                       /\ pc' = GoogleSectionStart(1)
                       /\ UNCHANGED <<plan, messages>>
    /\ UNCHANGED <<form, inp, runs, calls, downloads, tables, now, arg, ret>>

\* lines 641-643
GoogleNearby ==
    /\ pc = "google_nearby"
    /\ LET q == ThisSection
           key == <<"google_nearby_search", form.api_key, enr.lat, enr.lon, enr.radius_m,
                    q.google_nearby_types, enr.max_results, enr.field_mask>>
           request == [method |-> "POST", url |-> GOOGLE_NEARBY_SEARCH_URL, call |-> key]
       IN \E o \in ApiOutcomes(key, GoogleNearbyBodies(q.google_nearby_types)) :
            LET value == IF o.kind = "json" THEN places_of(o.body) ELSE <<>>
                r == ApiResult(key, GOOGLE_NEARBY_SEARCH_URL, o, value)
            IN /\ http' = HttpAfter(o, request)
               /\ cache' = CacheAfter(key, o, value)
               /\ api' = ApiAfter(key, o, r)
               /\ IF ~r.ok THEN EnrichRaises(r.error)
                  ELSE /\ enr' = [enr EXCEPT !.suggestions =
                                     Map(r.value, LAMBDA p : suggestion_from_google_place(p, q.section))]
                       /\ pc' = "google_text"
                       /\ UNCHANGED <<plan, messages>>
    /\ UNCHANGED <<form, inp, runs, calls, downloads, tables, now, arg, ret>>

\* lines 646-650: the text search of the section, then the section's entry
GoogleText ==
    /\ pc = "google_text"
    /\ LET q == ThisSection
           key == <<"google_text_search", form.api_key, strip(q.google_text), enr.field_mask>>
           request == [method |-> "POST", url |-> GOOGLE_TEXT_SEARCH_URL, call |-> key]
       IN \E o \in ApiOutcomes(key, GoogleTextBodies(q.google_text)) :
            LET value == IF o.kind = "json" THEN places_of(o.body) ELSE <<>>
                r == ApiResult(key, GOOGLE_TEXT_SEARCH_URL, o, value)
            IN /\ http' = HttpAfter(o, request)
               /\ cache' = CacheAfter(key, o, value)
               /\ api' = ApiAfter(key, o, r)
               /\ IF ~r.ok THEN EnrichRaises(r.error)
                  ELSE LET suggestions ==
                               enr.suggestions \o
                               Map(Take(r.value, enr.max_results),
                                   LAMBDA p : suggestion_from_google_place(p, q.section))
                           entry == Take(dedupe_suggestions(suggestions), enr.max_results)
                       IN /\ enr' = [enr EXCEPT
                                       !.enriched = [s \in DOMAIN @ \cup {q.section} |->
                                                        IF s = q.section THEN entry ELSE @[s]],
                                       !.idx = @ + 1,
                                       !.suggestions = <<>>]
                          /\ pc' = GoogleSectionStart(enr.idx + 1)
                          /\ UNCHANGED <<plan, messages>>
    /\ UNCHANGED <<form, inp, runs, calls, downloads, tables, now, arg, ret>>

--------------------------------------------------------------------------
(* OpenTripMap branch: lines 652-678 *)

\* a status test that accepts every answer
geoname_failed_never(geo) == FALSE

\* line 656: str(geo.get("status")) != "OK"
geoname_failed(geo) == GetStr(geo, "status") # "OK"

\* lines 655-659
OtmGeoname ==
    /\ pc = "otm_geoname"
    /\ LET key == <<"otm_geoname", form.api_key, enr.d>>
           url == OTM_BASE \o "/geoname"
           request == [method |-> "GET", url |-> url, call |-> key]
       IN \E o \in ApiOutcomes(key, OtmGeonameBodies) :
            LET value == IF o.kind = "json" THEN o.body ELSE EmptyDict
                r == ApiResult(key, url, o, value)
            IN /\ http' = HttpAfter(o, request)
               /\ cache' = CacheAfter(key, o, value)
               /\ api' = ApiAfter(key, o, r)
               /\ IF ~r.ok THEN EnrichRaises(r.error)
                  ELSE IF geoname_failed(r.value) THEN EnrichRaises(OTM_GEONAME_FAILED)
                  ELSE IF ~(Has(r.value, "lat") /\ Has(r.value, "lon")) THEN EnrichRaises(FLOAT_NONE)
                  ELSE /\ enr' = [enr EXCEPT !.lat = r.value.lat, !.lon = r.value.lon,
                                             !.idx = 1, !.suggestions = <<>>]
                       /\ pc' = "otm_section"
                       /\ UNCHANGED <<plan, messages>>
    /\ UNCHANGED <<form, inp, runs, calls, downloads, tables, now, arg, ret>>

\* the section loop of line 661 after section number k - 1
OtmSectionStart(k) == IF k > Len(enr.queries) THEN "enrich_end" ELSE "otm_section"

\* lines 662-671: the taxi section is kept offline, any other section asks
\* for the places within the radius
OtmSection ==
    /\ pc = "otm_section"
    /\ LET q == ThisSection IN
       IF q.section = "Taxi services"
       THEN /\ enr' = [enr EXCEPT
                         !.enriched = [s \in DOMAIN @ \cup {q.section} |->
                                          IF s = q.section THEN <<>> ELSE @[s]],
                         !.idx = @ + 1]
            /\ pc' = OtmSectionStart(enr.idx + 1)
            /\ UNCHANGED <<plan, messages, http, cache, api>>
       ELSE LET key == <<"otm_radius", form.api_key, enr.lat, enr.lon, enr.radius_m,
                         q.otm_kinds, enr.max_results>>
                url == OTM_BASE \o "/radius"
                request == [method |-> "GET", url |-> url, call |-> key]
            IN \E o \in ApiOutcomes(key, OtmRadiusBodiesFor(q.otm_kinds)) :
                 LET value == IF o.kind = "json" THEN o.body ELSE <<>>
                     r == ApiResult(key, url, o, value)
                 IN /\ http' = HttpAfter(o, request)
                    /\ cache' = CacheAfter(key, o, value)
                    /\ api' = ApiAfter(key, o, r)
                    /\ IF ~r.ok THEN EnrichRaises(r.error)
                       ELSE /\ enr' = [enr EXCEPT !.hits = Take(r.value, enr.max_results),
                                                  !.suggestions = <<>>]
                            /\ pc' = "otm_hits"
                            /\ UNCHANGED <<plan, messages>>
    /\ UNCHANGED <<form, inp, runs, calls, downloads, tables, now, arg, ret>>

\* lines 671-677: one pass of the loop over the hits
OtmXid ==
    /\ pc = "otm_hits"
    /\ enr.hits # <<>>
    /\ LET h == Head(enr.hits)
           xid == GetStr(h, "xid")
           fallback_name == GetStr(h, "name")
       IN IF xid = ""
          THEN /\ enr' = [enr EXCEPT !.hits = Tail(@)]
               /\ pc' = "otm_hits"
               /\ UNCHANGED <<plan, messages, http, cache, api>>
          ELSE LET key == <<"otm_xid", form.api_key, xid>>
                   url == OTM_BASE \o "/xid/" \o xid
                   request == [method |-> "GET", url |-> url, call |-> key]
               IN \E o \in ApiOutcomes(key, OtmXidBodiesFor(xid)) :
                    LET value == IF o.kind = "json" THEN o.body ELSE EmptyDict
                        r == ApiResult(key, url, o, value)
                    IN /\ http' = HttpAfter(o, request)
                       /\ cache' = CacheAfter(key, o, value)
                       /\ api' = ApiAfter(key, o, r)
                       /\ IF ~r.ok THEN EnrichRaises(r.error)
                          ELSE /\ enr' = [enr EXCEPT
                                            !.hits = Tail(@),
                                            !.suggestions = Append(@,
                                                suggestion_from_otm_details(r.value, fallback_name,
                                                                            ThisSection.section))]
                               /\ pc' = "otm_hits"
                               /\ UNCHANGED <<plan, messages>>
    /\ UNCHANGED <<form, inp, runs, calls, downloads, tables, now, arg, ret>>

\* line 678: the section's entry, once the loop over the hits is over
OtmSectionEnd ==
    /\ pc = "otm_hits"
    /\ enr.hits = <<>>
    /\ LET q == ThisSection
           entry == Take(dedupe_suggestions(enr.suggestions), enr.max_results)
       IN enr' = [enr EXCEPT
                    !.enriched = [s \in DOMAIN @ \cup {q.section} |->
                                     IF s = q.section THEN entry ELSE @[s]],
                    !.idx = @ + 1,
                    !.suggestions = <<>>]
    /\ pc' = OtmSectionStart(enr.idx + 1)
    /\ UNCHANGED <<form, inp, plan, http, cache, runs, messages, calls, downloads, api, tables, now,
                   arg, ret>>

\* a return that builds a new plan and loses the reminders
EnrichEnd_dropping_reminders ==
    /\ pc = "enrich_end"
    /\ plan' = [plan EXCEPT !.enriched = enr.enriched, !.reminders = <<>>]
    /\ enr' = None
    /\ pc' = "tabs"
    /\ UNCHANGED <<form, inp, http, cache, runs, messages, calls, downloads, api, tables, now,
                   arg, ret>>

\* lines 683-684 and 895: the sections are stored in the plan and the plan
\* is returned
EnrichEnd ==
    /\ pc = "enrich_end"
    /\ plan' = [plan EXCEPT !.enriched = enr.enriched]
    /\ enr' = None
    /\ pc' = "tabs"
    /\ UNCHANGED <<form, inp, http, cache, runs, messages, calls, downloads, api, tables, now,
                   arg, ret>>

--------------------------------------------------------------------------
(* Export: lines 701-800.  A dict is rendered in the insertion order of    *)
(* its keys, which the *_ORDER sequences record.                           *)

PACKING_ORDER ==
    <<"Documents & money", "Tech", "Toiletries", "Clothing (base)", "Safety & misc",
      "Weather add-ons", "Activity add-ons", "Carry-on strategy", "Accessibility">>
HEALTH_ORDER == <<"Health & vaccines (checklist)", "Destination prompts (verify with clinician)">>
PLACES_ORDER == <<"Ideas based on your interests", "Easy wins anywhere", "Destination prompts">>
TRANSPORT_ORDER == <<"Taxi / ride options", "Safety checklist", "Destination prompts">>
FOOD_ORDER == <<"Local foods (starter list)", "Food game plan", "Your custom additions">>
SECTION_ORDER ==
    <<"Top attractions", "Museums & art", "Nightlife", "Food spots", "Beaches", "Hikes & nature",
      "Taxi services">>
ACTIVITY_ORDER ==
    <<"City exploring", "Business", "Beach", "Hiking", "Ski/Snow", "Nightlife", "Museums/Art",
      "Food tour", "Theme parks", "Road trip", "Camping", "Water sports">>

RECURSIVE Concat(_)
Concat(seqs) == IF Len(seqs) = 0 THEN <<>> ELSE Head(seqs) \o Concat(Tail(seqs))

\* the keys of d, in insertion order
Keys(d, order) == SelectSeq(order, LAMBDA k : k \in DOMAIN d)

DIGITS == "0123456789"

\* str(n) for n >= 0
RECURSIVE str_int(_)
str_int(n) == IF n < 10 THEN Ch(DIGITS, n + 1) ELSE str_int(n \div 10) \o Ch(DIGITS, (n % 10) + 1)

\* date.isoformat(): the day numbers are the days of one month
isoformat(day) == "2026-11-" \o (IF day < 10 THEN "0" ELSE "") \o str_int(day)

\* lines 748-757: one "Quick picks" line
place_line(p) ==
    LET meta == (IF p.address # "" THEN <<p.address>> ELSE <<>>)
             \o (IF p.rating # <<>> /\ p.rating_count # <<>>
                 THEN <<"* " \o str_int(p.rating[1]) \o ".0 (" \o str_int(p.rating_count[1]) \o ")">>
                 ELSE <<>>)
        tail == join(" - ", meta)
        suffix == IF tail # "" THEN " - " \o tail ELSE ""
    IN IF p.url # ""
       THEN "- [" \o p.name \o "](" \o p.url \o ")" \o suffix
       ELSE "- " \o p.name \o suffix

\* lines 726-800, as the list `lines`
plan_to_markdown(i, p) ==
    LET chosen == SelectSeq(ACTIVITY_ORDER, LAMBDA a : a \in i.activities)
        header ==
            << "# Travel Plan: " \o i.departure \o " -> " \o i.destination,
               "",
               "- Dates: " \o isoformat(i.start_date) \o " to " \o isoformat(i.end_date),
               "- Travelers: " \o str_int(i.travelers),
               "- Style: " \o i.trip_style \o " | Accommodation: " \o i.accommodation
                   \o " | Luggage: " \o i.luggage,
               "- Weather: " \o i.weather \o " | Rain likelihood: " \o str_int(i.rain_likelihood) \o "%",
               "- Activities: " \o (IF chosen # <<>> THEN join(", ", chosen) ELSE "None selected") >>
            \o (IF strip(i.dietary_notes) # "" THEN <<"- Dietary notes: " \o strip(i.dietary_notes)>> ELSE <<>>)
            \o (IF strip(i.health_notes) # "" THEN <<"- Health notes: " \o strip(i.health_notes)>> ELSE <<>>)
            \o <<"">>
        picks ==
            IF DOMAIN p.enriched = {} THEN <<>>
            ELSE <<"## Quick picks (from API)">>
                 \o Concat([k \in 1..Len(Keys(p.enriched, SECTION_ORDER)) |->
                       LET s == Keys(p.enriched, SECTION_ORDER)[k] IN
                       IF p.enriched[s] = <<>> THEN <<>>
                       ELSE <<"### " \o s>> \o Map(p.enriched[s], place_line) \o <<"">>])
        checklist(d, order) ==
            Concat([k \in 1..Len(Keys(d, order)) |->
                LET cat == Keys(d, order)[k] IN
                <<"### " \o cat>>
                \o Map(d[cat], LAMBDA it : "- [ ] **" \o it.item \o "** - " \o it.why)
                \o <<"">>])
        bullets(d, order) ==
            Concat([k \in 1..Len(Keys(d, order)) |->
                LET cat == Keys(d, order)[k] IN
                <<"### " \o cat>> \o Map(d[cat], LAMBDA s : "- " \o s) \o <<"">>])
    IN header
       \o picks
       \o <<"## Packing List">> \o checklist(p.packing, PACKING_ORDER)
       \o <<"## Health & Vaccines (Verify)">> \o checklist(p.health, HEALTH_ORDER)
       \o <<"## Places to Visit (Prompts)">> \o bullets(p.places, PLACES_ORDER)
       \o <<"## Transport / Taxi (Prompts)">> \o bullets(p.transport, TRANSPORT_ORDER)
       \o <<"## Food Not to Miss">> \o bullets(p.food, FOOD_ORDER)
       \o <<"## Reminders">> \o Map(p.reminders, LAMBDA r : "- [ ] " \o r)
       \o <<"">>

\* lines 701-723
plan_to_jsonable(p) ==
    LET item_to_dict(it) == [item |-> it.item, why |-> it.why, tags |-> it.tags]
        place_to_dict(s) ==
            [name |-> s.name, address |-> s.address, url |-> s.url, rating |-> s.rating,
             rating_count |-> s.rating_count, category |-> s.category]
    IN [packing |-> [k \in DOMAIN p.packing |-> Map(p.packing[k], item_to_dict)],
        health |-> [k \in DOMAIN p.health |-> Map(p.health[k], item_to_dict)],
        places |-> p.places,
        transport |-> p.transport,
        food |-> p.food,
        enriched |-> [k \in DOMAIN p.enriched |-> Map(p.enriched[k], place_to_dict)],
        reminders |-> p.reminders]

\* lines 50-65: the declared type of each field of TravelInput, which
\* dataclasses.asdict keeps (it copies a date as a date)
TRAVEL_INPUT_TYPES ==
    [departure |-> "str", destination |-> "str", start_date |-> "date", end_date |-> "date",
     travelers |-> "int", trip_style |-> "str", accommodation |-> "str", luggage |-> "str",
     weather |-> "str", rain_likelihood |-> "int", activities |-> "tuple",
     dietary_notes |-> "str", mobility_notes |-> "str", health_notes |-> "str",
     budget_notes |-> "str"]

asdict(i) == i

\* the types json.dumps encodes when it is given no `default` (line 1003)
JSON_ENCODABLE == {"str", "int", "float", "bool", "NoneType", "list", "tuple", "dict"}

\* line 1003: json.dumps({"input": asdict(inp), "plan": _plan_to_jsonable(plan)}, ...)
json_dumps_export(input, plan_json) ==
    LET bad == {f \in DOMAIN input : TRAVEL_INPUT_TYPES[f] \notin JSON_ENCODABLE}
    IN IF bad # {}
       THEN [ok |-> FALSE,
             error |-> "TypeError: Object of type "
                       \o TRAVEL_INPUT_TYPES[CHOOSE f \in bad : TRUE] \o " is not JSON serializable"]
       ELSE [ok |-> TRUE, data |-> [input |-> input, plan |-> plan_json]]

--------------------------------------------------------------------------
(* The tabs and the export tab: lines 907-1007 *)

\* str.splitlines() on "\n"
RECURSIVE LinesFrom(_, _, _, _)
LinesFrom(s, i, cur, acc) ==
    IF i > Len(s)
    THEN IF cur = "" THEN acc ELSE Append(acc, cur)
    ELSE IF Ch(s, i) = "\n"
         THEN LinesFrom(s, i + 1, "", Append(acc, cur))
         ELSE LinesFrom(s, i + 1, cur \o Ch(s, i), acc)

splitlines(s) == LinesFrom(s, 1, "", <<>>)

\* lines 992-993: the list `added`, empty when nothing is to be added
custom_items(custom_food) ==
    IF strip(custom_food) # ""
    THEN SelectSeq(Map(splitlines(custom_food), strip), LAMBDA x : x # "")
    ELSE <<>>

\* the custom items added to the starter list of the plan
CUSTOM_FOOD_KEY_starter_list == "Local foods (starter list)"

\* line 996: the key of plan.food the custom items go to
CUSTOM_FOOD_KEY == "Your custom additions"

\* lines 992-996: the custom food items are added to plan.food
with_custom_food(p, custom_food) ==
    LET added == custom_items(custom_food)
    IN IF added # <<>>
       THEN [p EXCEPT !.food = setdefault_extend(@, CUSTOM_FOOD_KEY, added)]
       ELSE p

\* lines 368, 377, 389 and 398: the lists of the plan for request i that are
\* lists of a lookup table (the same objects, not copies)
table_lists(i) ==
    LET region == infer_region(i.destination)
        key == extract_country_key(i.destination)
    IN {[field |-> "transport", key |-> "Taxi / ride options", table |-> "RIDE_HAILING_BY_REGION",
         cell |-> IF region \in DOMAIN RIDE_HAILING_BY_REGION THEN region ELSE "unknown"]}
       \cup (IF key # None /\ key.key \in DOMAIN FOOD_STARTERS_BY_COUNTRY
                 /\ FOOD_STARTERS_BY_COUNTRY[key.key] # <<>>
             THEN {[field |-> "food", key |-> "Local foods (starter list)",
                    table |-> "FOOD_STARTERS_BY_COUNTRY", cell |-> key.key]}
             ELSE {})

\* list.extend(added) on the list plan.<field>[key] of the plan for request
\* i, as the tables see it: a list of a table grows in the table as well
tables_after_extend(t, i, field, key, added) ==
    LET aliases == {a \in table_lists(i) : a.field = field /\ a.key = key}
    IN [name \in DOMAIN t |->
          [cell \in DOMAIN t[name] |->
              IF \E a \in aliases : a.table = name /\ a.cell = cell
              THEN t[name][cell] \o added
              ELSE t[name][cell]]]

\* lines 907-996: the seven tabs up to the food tab; the text area of line
\* 991 returns the widget value
RenderTabs ==
    /\ pc = "tabs"
    /\ plan' = with_custom_food(plan, form.custom_food)
    /\ LET added == custom_items(form.custom_food)
       IN tables' = IF added # <<>>
                    THEN tables_after_extend(tables, inp, "food", CUSTOM_FOOD_KEY, added)
                    ELSE tables
    /\ pc' = "export"
    /\ UNCHANGED <<form, inp, enr, http, cache, runs, messages, calls, downloads, api, now, arg, ret>>

st_download(file_name, mime, data) == [file_name |-> file_name, mime |-> mime, data |-> data]

\* lines 1000-1002
ExportMarkdown ==
    /\ pc = "export"
    /\ calls' = Append(calls, "plan_to_markdown")
    /\ downloads' = downloads \cup
           {st_download("travel_plan.md", "text/markdown", plan_to_markdown(inp, plan))}
    /\ pc' = "export_json"
    /\ UNCHANGED <<form, inp, plan, enr, http, cache, runs, messages, api, tables, now, arg, ret>>

\* lines 1003-1007: an exception of json.dumps is not caught and ends the
\* script run; otherwise the JSON download and the preview follow
ExportJson ==
    /\ pc = "export_json"
    /\ calls' = Append(calls, "json.dumps")
    /\ LET r == json_dumps_export(asdict(inp), plan_to_jsonable(plan))
       IN IF r.ok
          THEN /\ downloads' = downloads \cup
                      {st_download("travel_plan.json", "application/json", r.data)}
               /\ messages' = messages
               /\ pc' = "done"
          ELSE /\ downloads' = downloads
               /\ messages' = Append(messages, [kind |-> "exception", text |-> r.error])
               /\ pc' = "crashed"
    /\ UNCHANGED <<form, inp, plan, enr, http, cache, runs, api, tables, now, arg, ret>>

--------------------------------------------------------------------------

Next ==
    \/ ClickGenerate
    \/ TypeCustomFood
    \/ RerunWithoutGenerate
    \/ EditSidebar
    \/ Validate
    \/ GeneratePlan
    \/ EnrichBegin
    \/ GoogleGeocode
    \/ GoogleNearby
    \/ GoogleText
    \/ OtmGeoname
    \/ OtmSection
    \/ OtmXid
    \/ OtmSectionEnd
    \/ EnrichEnd
    \/ RenderTabs
    \/ ExportMarkdown
    \/ ExportJson

Spec == Init /\ [][Next]_vars

--------------------------------------------------------------------------
(* Properties *)

\* a direct call has returned
Returned == ret # None

\* no two entries of a checklist have the same normalized item text
NoDuplicateItems(items) ==
    Cardinality({normalize_text(items[k].item) : k \in 1..Len(items)}) = Len(items)

\* C1: for every valid TravelInput, every category list of the packing and
\* of the health checklist of the plan generate_plan returns holds no two
\* entries with equal normalize_text(item).
C1_NoDuplicateEntries ==
    Returned =>
        /\ \A cat \in DOMAIN ret.value.packing : NoDuplicateItems(ret.value.packing[cat])
        /\ \A cat \in DOMAIN ret.value.health : NoDuplicateItems(ret.value.health[cat])

\* a plan whose categories received entries from several assemblers and
\* whose destination has region prompts
C1_Witness ==
    /\ Returned
    /\ arg.rain_likelihood >= 60
    /\ "Water sports" \in arg.activities
    /\ arg.luggage = "Carry-on only"
    /\ Len(ret.value.packing["Weather add-ons"]) > 3
    /\ Len(ret.value.health["Destination prompts (verify with clinician)"]) = 2

\* the run has passed the checks of lines 866-871
PastValidation == pc \notin {"idle", "validate", "stopped"}

\* C2: a run whose trimmed departure or destination is empty, or whose end
\* date is before its start date, reports an error and stops without calling
\* generate_plan, enrich_plan_with_api or an exporter and without a plan;
\* every TravelInput that reaches generate_plan has a non-empty departure and
\* destination and end_date >= start_date.
C2_ValidationFirst ==
    /\ (strip(form.departure) = "" \/ strip(form.destination) = "" \/ form.end_date < form.start_date)
         => /\ ~PastValidation
            /\ calls = <<>>
            /\ inp = None /\ plan = None
            /\ http = <<>> /\ downloads = {}
            /\ pc = "stopped" => Len(messages) = 1 /\ messages[1].kind = "error"
    /\ inp # None
         => /\ inp.departure # "" /\ inp.destination # ""
            /\ inp.end_date >= inp.start_date
    /\ pc = "stopped" => Len(messages) = 1 /\ messages[1].kind = "error"

\* a run rejected for its dates alone, and one rejected for a blank destination
C2_Witness ==
    /\ pc = "stopped"
    /\ strip(form.departure) # ""
    /\ \/ strip(form.destination) # "" /\ form.end_date < form.start_date
       \/ strip(form.destination) = "" /\ form.destination # ""
    /\ messages[1].kind = "error"

\* enrich_plan_with_api raised in this run (the only source of warnings)
EnrichFailed == \E k \in 1..Len(messages) : messages[k].kind = "warning"

\* C3: when enrich_plan_with_api fails at any point, the error is caught and
\* reported as a warning, and the plan displayed and exported afterwards is
\* exactly the plan generate_plan returned, with an empty `enriched`: the
\* step that raises leaves the plan of generate_plan, every later step of
\* the run keeps it (the food tab adding the user's own food items), and
\* the Markdown export is made of it.
C3_FallsBackToOfflinePlan ==
    [][EnrichFailed' =>
          /\ pc' \in {"tabs", "export", "export_json", "done", "crashed", "rerun"}
          /\ plan'.enriched = EmptyDict
          /\ IF ~EnrichFailed
             THEN plan' = generate_plan(inp')
             ELSE plan' \in {plan, with_custom_food(plan, form.custom_food)}
          /\ \A dl \in downloads' :
                dl.file_name = "travel_plan.md" => dl.data = plan_to_markdown(inp', plan')
      ]_vars

\* the fourth request of a Google run failed, after the first section had
\* been fetched, and the export has been rendered
C3_Witness ==
    /\ EnrichFailed
    /\ form.provider = "Google Places (New)"
    /\ Len(http) >= 4
    /\ downloads # {}

\* the message names the request or the API call that failed
NamesFailingCall(text) ==
    \/ Contains("https://", text)
    \/ Contains("Text Search", text)
    \/ Contains("geoname", text)

\* C4: any HTTP failure or parsing failure during enrichment (a response
\* lacking the destination's latitude/longitude included) raises an error
\* whose message identifies the failing call.
C4_FailureNamesCall ==
    \A k \in 1..Len(messages) :
        (messages[k].kind = "warning" /\ messages[k].text \notin {GOOGLE_KEY_REQUIRED, OTM_KEY_REQUIRED})
            => NamesFailingCall(messages[k].text)

\* the export tab has been run to its end (or to an uncaught exception)
ExportOver == pc \in {"done", "crashed"} /\ plan # None

\* C5: the JSON export is produced for every valid request, with the start
\* and end dates as ISO-8601 strings.
C5_JsonExportHasIsoDates ==
    ExportOver =>
        \E dl \in downloads :
            /\ dl.file_name = "travel_plan.json"
            /\ dl.data.input.start_date = isoformat(inp.start_date)
            /\ dl.data.input.end_date = isoformat(inp.end_date)

\* the five file names of the archive
ARCHIVE_FILES ==
    {"travel_plan.md", "travel_plan.json", "packing_checklist.csv", "health_checklist.csv",
     "reminders.csv"}

\* C6: every export produces an archive holding exactly the five files
\* travel_plan.md, travel_plan.json, packing_checklist.csv,
\* health_checklist.csv and reminders.csv.
C6_ArchiveHasFiveFiles ==
    ExportOver =>
        \E dl \in downloads :
            /\ dl.mime = "application/zip"
            /\ DOMAIN dl.data = ARCHIVE_FILES

REGION_LABELS ==
    {"uk_ie", "eu", "us_canada", "latam", "mena", "south_asia", "se_asia", "east_asia", "oceania",
     "unknown"}

\* the keyword list of each region
KEYWORDS ==
    [uk_ie |-> KW_uk_ie, eu |-> KW_eu, us_canada |-> KW_us_canada, latam |-> KW_latam,
     mena |-> KW_mena, south_asia |-> KW_south_asia, se_asia |-> KW_se_asia,
     east_asia |-> KW_east_asia, oceania |-> KW_oceania]

\* the regions having a keyword in d
MatchingRegions(d) == {r \in DOMAIN KEYWORDS : AnyIn(KEYWORDS[r], d)}

\* C7: infer_region returns, for every destination string (empty and
\* whitespace-only included), one label of the fixed set, and "unknown" when
\* no keyword is a substring of the normalized destination (and only then).
C7_RegionTotal ==
    Returned =>
        /\ ret.value \in REGION_LABELS
        /\ ret.value = "unknown" <=> MatchingRegions(normalize_text(arg)) = {}

\* a whitespace-only destination, and one with text but no keyword
C7_Witness ==
    /\ Returned
    /\ ret.value = "unknown"
    /\ arg \in {" ", "Nairobi"}

\* position of a region in the order of the tests
OrderOf(r) == CHOOSE k \in 1..Len(REGION_ORDER) : REGION_ORDER[k] = r

\* C8: the lists are tested in the order uk_ie, eu, us_canada, latam, mena,
\* south_asia, se_asia, east_asia, oceania; a destination matching keywords
\* of several regions gets the earliest of them in that order, wherever the
\* keywords stand in the string.
C8_FirstRegionWins ==
    Returned =>
        LET m == MatchingRegions(normalize_text(arg))
        IN m # {} => /\ ret.value \in m
                     /\ \A r \in m : OrderOf(ret.value) <= OrderOf(r)

\* the east_asia keyword comes first in the string, the uk_ie keyword wins
C8_Witness ==
    /\ Returned
    /\ arg = "Tokyo, London"
    /\ ret.value = "uk_ie"
    /\ Cardinality(MatchingRegions(normalize_text(arg))) = 2

\* the keywords of the regions tested before east_asia
BEFORE_EAST_ASIA ==
    KW_uk_ie \o KW_eu \o KW_us_canada \o KW_latam \o KW_mena \o KW_south_asia \o KW_se_asia

\* C9: for "Tokyo, Japan", and for any destination whose normalized text
\* contains "japan" and no keyword of a region tested before east_asia,
\* infer_region returns east_asia and the plan's "Local foods (starter list)"
\* is the non-empty Japan entry of FOOD_STARTERS_BY_COUNTRY.
C9_JapanFoods ==
    (/\ Returned
     /\ Contains("japan", normalize_text(arg.destination))
     /\ ~AnyIn(BEFORE_EAST_ASIA, normalize_text(arg.destination)))
        => /\ infer_region(arg.destination) = "east_asia"
           /\ ret.value.transport["Taxi / ride options"] = RIDE_HAILING_BY_REGION["east_asia"]
           /\ ret.value.food["Local foods (starter list)"] = FOOD_STARTERS_BY_COUNTRY["japan"]
           /\ ret.value.food["Local foods (starter list)"] # <<>>
           /\ ret.value.food["Local foods (starter list)"][1] = "Ramen"

C9_Witness ==
    /\ Returned
    /\ arg.destination = "Tokyo, Japan"
    /\ Len(ret.value.food["Local foods (starter list)"]) = 5

\* the rain-specific entries
RAIN_ITEMS == {"Compact umbrella", "Light rain jacket", "Water-resistant shoes (optional)"}

\* C10: for every weather feel and every other input, the plan's "Weather
\* add-ons" holds each of the three rain entries (once, after deduplication)
\* when rain likelihood >= 60, and none of them when it is < 60.
C10_RainEntries ==
    Returned =>
        LET addons == ret.value.packing["Weather add-ons"]
            Count(name) == Cardinality({k \in 1..Len(addons) : addons[k].item = name})
        IN IF arg.rain_likelihood >= 60
           THEN \A name \in RAIN_ITEMS : Count(name) = 1
           ELSE \A name \in RAIN_ITEMS : Count(name) = 0

\* rain at the threshold, under a weather feel other than the default
C10_Witness ==
    /\ Returned
    /\ arg.rain_likelihood = 60
    /\ arg.weather = "Hot"
    /\ \E k \in 1..Len(ret.value.packing["Weather add-ons"]) :
          ret.value.packing["Weather add-ons"][k].item = "Compact umbrella"

--------------------------------------------------------------------------
(* Enrichment results, the cache and the food tab *)

\* enrich_plan_with_api has returned the plan in this run
EnrichReturned ==
    /\ plan # None
    /\ ~EnrichFailed
    /\ pc \in {"tabs", "export", "export_json", "done", "crashed", "rerun"}

\* a suggestion's category, name and address, each normalized
NormalizedTriple(it) ==
    <<normalize_text(it.category), normalize_text(it.name), normalize_text(it.address)>>

\* C11: after a successful enrichment, in every section of plan.enriched no
\* two suggestions have the same normalized (category, name, address)
\* triple, and the section holds at most the configured maximum number of
\* suggestions.
C11_SectionsDedupedAndTruncated ==
    EnrichReturned =>
        \A s \in DOMAIN plan.enriched :
            LET xs == plan.enriched[s]
            IN /\ Len(xs) <= form.max_results
               /\ \A j, k \in 1..Len(xs) :
                     j # k => NormalizedTriple(xs[j]) # NormalizedTriple(xs[k])

\* some section of the plan holds a PlaceSuggestion
HasSuggestions == plan # None /\ \E s \in DOMAIN plan.enriched : plan.enriched[s] # <<>>

\* C12: with provider "Offline (no API)", enrich_plan_with_api issues no
\* HTTP request whatever the API key, radius and max-results are, returns
\* the plan it was given unchanged, and plan.enriched holds no suggestion;
\* a plan holds suggestions only after a successful enrichment with one of
\* the two API providers.
C12_OfflineIsInert ==
    /\ form.provider = "Offline (no API)" =>
          /\ http = <<>>
          /\ api = <<>>
          /\ enr = None
          /\ ~EnrichFailed
          /\ plan # None =>
                /\ plan.enriched = EmptyDict
                /\ pc = "tabs" => plan = generate_plan(inp)
                /\ [plan EXCEPT !.food = generate_plan(inp).food] = generate_plan(inp)
    /\ HasSuggestions =>
          /\ form.provider \in {"Google Places (New)", "OpenTripMap"}
          /\ EnrichReturned
          /\ api # <<>>
          /\ \A k \in 1..Len(api) : api[k].ok

\* an offline plan was generated and exported with an API key entered and
\* the radius and max-results sliders at their upper ends
C12_Witness ==
    /\ form.provider = "Offline (no API)"
    /\ form.api_key = "secret"
    /\ form.radius_km = 25
    /\ form.max_results = 20
    /\ "enrich_plan_with_api" \in {calls[k] : k \in 1..Len(calls)}
    /\ pc = "crashed"
    /\ plan = generate_plan(inp)

--------------------------------------------------------------------------
(* uniq_items *)

\* the positions of items holding the first occurrence of their normalized
\* item text
FirstOccurrences(items) ==
    {k \in 1..Len(items) :
        \A j \in 1..(k - 1) : normalize_text(items[j].item) # normalize_text(items[k].item)}

\* out is items restricted to the positions in S, in the order of items
IsRestriction(out, items, S) ==
    /\ Len(out) = Cardinality(S)
    /\ \A k \in S : out[Cardinality({j \in S : j <= k})] = items[k]

\* d[cat], or the empty list
ListOf(d, cat) == IF cat \in DOMAIN d THEN d[cat] ELSE <<>>

\* what the assemblers contribute to a packing category of request i, in
\* the order generate_plan appends it
Contributions(i, cat) ==
       ListOf(base_packing, cat)
    \o ListOf(weather_module(i.weather, i.rain_likelihood), cat)
    \o ListOf(activity_modules(i.activities, trip_length_days(i.start_date, i.end_date),
                               i.trip_style), cat)
    \o (IF cat = "Carry-on strategy" /\ i.luggage = "Carry-on only" THEN CARRY_ON_ITEMS ELSE <<>>)
    \o (IF cat = "Accessibility" /\ strip(i.mobility_notes) # "" THEN <<ACCESSIBILITY_ITEM>> ELSE <<>>)

\* C13: uniq_items returns a subsequence of its input: of each normalized
\* item text the first occurrence is kept and the later ones are dropped,
\* the kept entries keep the order of the input, and a second application
\* changes nothing; generate_plan applies it to each packing category once,
\* after the base, weather, activity, carry-on and accessibility
\* contributions have all been appended.
C13_UniqKeepsFirstOccurrences ==
    Returned =>
        /\ ret.fn = "uniq_items" =>
              IsRestriction(ret.value, arg.items, FirstOccurrences(arg.items))
        /\ ret.fn = "uniq_items(uniq_items)" =>
              /\ ret.value = ret.once
              /\ IsRestriction(ret.value, arg.items, FirstOccurrences(arg.items))
        /\ ret.fn = "generate_plan" =>
              /\ DOMAIN ret.value.packing \subseteq {PACKING_ORDER[k] : k \in 1..Len(PACKING_ORDER)}
              /\ \A k \in 1..Len(PACKING_ORDER) :
                    LET cat == PACKING_ORDER[k]
                    IN IsRestriction(ListOf(ret.value.packing, cat), Contributions(arg, cat),
                                     FirstOccurrences(Contributions(arg, cat)))

\* the second and the third entry repeat the first in another case and with
\* other whitespace, the fourth is new; uniq_items was applied twice
C13_Witness ==
    /\ Returned
    /\ ret.fn = "uniq_items(uniq_items)"
    /\ Len(arg.items) = 3
    /\ arg.items[1].item = "passport "
    /\ arg.items[2].item = "  PASSPORT"
    /\ arg.items[3].item = "Umbrella"
    /\ Len(ret.value) = 2

--------------------------------------------------------------------------
(* The interest sections *)

SEVEN_SECTIONS == {SECTION_ORDER[k] : k \in 1..Len(SECTION_ORDER)}

\* enrich_plan_with_api has returned the plan from one of its API branches
ApiEnrichReturned == EnrichReturned /\ form.provider # "Offline (no API)"

\* C14 as stated: for every request enriched with an API provider,
\* plan.enriched has an entry for each of the seven interest sections
\* (attractions, museums, nightlife, food, beaches, hikes, taxi), whatever
\* activities the request selects.
C14_SevenSectionsAlways ==
    ApiEnrichReturned => DOMAIN plan.enriched = SEVEN_SECTIONS

\* the activity that selects a section
SECTION_ACTIVITY ==
    [s \in SEVEN_SECTIONS \ {"Top attractions", "Taxi services"} |->
        CASE s = "Museums & art" -> "Museums/Art"
          [] s = "Nightlife" -> "Nightlife"
          [] s = "Food spots" -> "Food tour"
          [] s = "Beaches" -> "Beach"
          [] s = "Hikes & nature" -> "Hiking"]

\* the sections of a request: attractions and taxi, and those its activities
\* select
SectionsOf(activities) ==
    {"Top attractions", "Taxi services"}
        \cup {s \in DOMAIN SECTION_ACTIVITY : SECTION_ACTIVITY[s] \in activities}

\* a word of the text query of a section
SECTION_WORD ==
    [s \in SEVEN_SECTIONS |->
        CASE s = "Top attractions" -> "attractions"
          [] s = "Museums & art" -> "museums"
          [] s = "Nightlife" -> "nightlife"
          [] s = "Food spots" -> "restaurants"
          [] s = "Beaches" -> "beaches"
          [] s = "Hikes & nature" -> "hikes"
          [] s = "Taxi services" -> "taxi"]

\* the calls of the API function fn in this run
CallsOf(fn) == {k \in 1..Len(api) : api[k].call[1] = fn}

\* the Text Search calls after the one that resolves the destination
SectionTextSearches == CallsOf("google_text_search") \ {1}

\* C14 (amended): for every request enriched with an API provider, the
\* sections are "Top attractions" and "Taxi services" and, of museums,
\* nightlife, food, beaches and hikes, those the request's activities
\* select; plan.enriched has an entry for exactly these sections, one text
\* search per section is issued with Google Places, and one radius search
\* per section other than "Taxi services" with OpenTripMap.
C14_SectionsFollowActivities ==
    ApiEnrichReturned =>
        LET sections == SectionsOf(inp.activities)
        IN /\ DOMAIN plan.enriched = sections
           /\ form.provider = "Google Places (New)" =>
                 /\ Cardinality(SectionTextSearches) = Cardinality(sections)
                 /\ \A s \in sections :
                       \E k \in SectionTextSearches : Contains(SECTION_WORD[s], api[k].call[3])
           /\ form.provider = "OpenTripMap" =>
                 /\ Cardinality(CallsOf("otm_radius")) = Cardinality(sections) - 1
                 /\ \A k \in CallsOf("otm_radius") : api[k].call[6] # ""
                 /\ plan.enriched["Taxi services"] = <<>>

\* a request selecting museums was enriched by Google Places: three
\* sections, museums among them
C14_Witness ==
    /\ ApiEnrichReturned
    /\ form.provider = "Google Places (New)"
    /\ inp.activities = {"Museums/Art"}
    /\ DOMAIN plan.enriched = {"Top attractions", "Museums & art", "Taxi services"}
    /\ Cardinality(SectionTextSearches) = 3

--------------------------------------------------------------------------
(* The response cache *)

\* the cache holds a response for the call that was stored less than the
\* time bound ago
StoredWithinBound(key) == key \in DOMAIN cache /\ now < cache[key].at + TTL

\* this step is a call of one of the five API functions
ApiCallStep == Len(api') = Len(api) + 1

\* this step starts a script run
RunStartStep == runs' = runs + 1 \/ (pc # "idle" /\ pc' = "idle")

\* C15: the only state shared across invocations is the response cache of
\* the five API functions, keyed by the exact call parameters: a call
\* repeated with identical parameters within 3600 s after a successful call
\* returns the same response without a new HTTP request, a call with any
\* differing parameter issues a new request, and a failed call leaves no
\* cache entry (the next identical call issues the request again).
C15_CacheSemantics ==
    [][/\ ApiCallStep =>
             LET c == api'[Len(api')]
             IN IF StoredWithinBound(c.call)
                THEN /\ http' = http
                     /\ c.ok
                     /\ c.result = cache[c.call].value
                     /\ cache' = cache
                ELSE /\ Len(http') = Len(http) + 1
                     /\ http'[Len(http')].call = c.call
                     /\ SubSeq(http', 1, Len(http)) = http
                     /\ IF c.ok
                        THEN /\ DOMAIN cache' = DOMAIN cache \cup {c.call}
                             /\ cache'[c.call] = [value |-> c.result, at |-> now]
                             /\ \A k \in DOMAIN cache \ {c.call} : cache'[k] = cache[k]
                        ELSE cache' = cache
       /\ ~ApiCallStep => (cache' = cache /\ http' \in {http, <<>>})
       /\ RunStartStep =>
             /\ cache' = cache
             /\ inp' = None /\ plan' = None /\ enr' = None
             /\ http' = <<>> /\ api' = <<>> /\ messages' = <<>>
             /\ calls' = <<>> /\ downloads' = {}
             /\ tables' = TABLES
      ]_vars

\* second run, half the time bound after the first, with another
\* max-results value: the geocoding call is answered from the cache, the
\* nearby search differs in a parameter and is sent again
C15_Witness ==
    /\ runs = 2
    /\ now = TTL \div 2
    /\ form.provider = "Google Places (New)"
    /\ Len(api) >= 2
    /\ api[1].cached
    /\ ~api[2].cached
    /\ Len(http) = 1
    /\ cache[api[1].call].at = 0
    /\ api[2].call[1] = "google_nearby_search"
    /\ \E k \in DOMAIN cache :
          k[1] = "google_nearby_search" /\ cache[k].at = 0 /\ k # api[2].call

--------------------------------------------------------------------------
(* The request *)

\* C16: every TravelInput that exists in the program has a rain likelihood
\* in the range [0,100] and an end date on or after its start date.
C16_RequestInRange ==
    inp # None =>
        /\ inp.rain_likelihood >= 0
        /\ inp.rain_likelihood <= 100
        /\ inp.end_date >= inp.start_date

\* a plan was generated from a request with the rain slider at its upper end
C16_Witness ==
    /\ inp # None
    /\ plan # None
    /\ inp.rain_likelihood = 100
    /\ form.rain_likelihood = 100

--------------------------------------------------------------------------
(* The order of the API calls *)

\* the call that resolves the destination to a coordinate
IsGeocodingCall(c) ==
    \/ /\ form.provider = "Google Places (New)"
       /\ c.call = <<"google_text_search", form.api_key, strip(form.destination), LOC_FIELD_MASK>>
    \/ /\ form.provider = "OpenTripMap"
       /\ c.call = <<"otm_geoname", form.api_key, strip(form.destination)>>

\* the geocoding call failed, or returned no result
GeocodingFailed(c) ==
    \/ ~c.ok
    \/ c.call[1] = "google_text_search" /\ c.result = <<>>
    \/ c.call[1] = "otm_geoname" /\ GetStr(c.result, "status") # "OK"

\* the geocoding call returned a result with a coordinate
GeocodingUsable(c) ==
    /\ ~GeocodingFailed(c)
    /\ c.call[1] = "google_text_search" =>
          Has(c.result[1], "location") /\ Has(c.result[1].location, "latitude")
    /\ c.call[1] = "otm_geoname" => Has(c.result, "lat")

\* C17: in every enrichment with an API provider the destination is
\* resolved to a coordinate first: the first API call is the geocoding call
\* (Google text search on the destination, or OpenTripMap geoname), a
\* section search is called or requested only after it has returned a usable
\* result, and when it fails or returns no result (an empty places list, or
\* a status other than OK) an error is raised and no section search is
\* issued.
C17_GeocodeFirst ==
    /\ api # <<>> =>
          /\ IsGeocodingCall(api[1])
          /\ Len(api) > 1 => GeocodingUsable(api[1])
          /\ GeocodingFailed(api[1]) => (Len(api) = 1 /\ EnrichFailed /\ Len(http) <= 1)
    /\ \A k \in 1..Len(http) :
          http[k].call[1] \in {"google_nearby_search", "otm_radius", "otm_xid"}
             => (api # <<>> /\ GeocodingUsable(api[1]))
    /\ api = <<>> => http = <<>>

\* OpenTripMap answered the geoname request with a status other than OK and
\* a coordinate: the enrichment ended there with the geoname error
C17_Witness ==
    /\ form.provider = "OpenTripMap"
    /\ Len(api) = 1
    /\ api[1].ok
    /\ GetStr(api[1].result, "status") = "ERROR"
    /\ Has(api[1].result, "lat")
    /\ messages # <<>>
    /\ messages[1].kind = "warning"
    /\ Contains(OTM_GEONAME_FAILED, messages[1].text)
    /\ pc = "crashed"

--------------------------------------------------------------------------
(* The long-trip entry *)

\* the plan returned holds the laundry kit among the activity add-ons
HasLaundryKit ==
    \E k \in 1..Len(ListOf(ret.value.packing, "Activity add-ons")) :
        ret.value.packing["Activity add-ons"][k].item = "Laundry kit (small detergent sheets)"

\* the days of the request, both ends counted
InclusiveDays == arg.end_date - arg.start_date + 1

\* the direct call of generate_plan has returned
PlanReturned == Returned /\ ret.fn = "generate_plan"

\* C18 as stated: the laundry kit is in the generated plan exactly when the
\* inclusive trip length is at least 7 days, for every trip style.
C18_LaundryKitByLengthAlone ==
    PlanReturned => (HasLaundryKit <=> InclusiveDays >= 7)

\* C18 (amended): the laundry kit is in the generated plan exactly when the
\* inclusive trip length is at least 7 days and the trip style is not
\* "Luxury".
C18_LaundryKitUnlessLuxury ==
    PlanReturned => (HasLaundryKit <=> (InclusiveDays >= 7 /\ arg.trip_style # "Luxury"))

\* a budget trip over days 1 to 7 has the laundry kit
C18_Witness ==
    /\ PlanReturned
    /\ arg.trip_style = "Budget"
    /\ arg.start_date = 1
    /\ arg.end_date = 7
    /\ HasLaundryKit

--------------------------------------------------------------------------
(* The lookup tables and the custom food items *)

\* C19: RIDE_HAILING_BY_REGION and FOOD_STARTERS_BY_COUNTRY are immutable in
\* effect: after any sequence of generate_plan, enrich_plan_with_api,
\* custom-food additions to plan.food and exports, over any number of
\* requests, their keys and lists are those they started with, although the
\* plan holds the tables' own list objects.
C19_TablesUnchanged ==
    /\ DOMAIN tables.RIDE_HAILING_BY_REGION = DOMAIN RIDE_HAILING_BY_REGION
    /\ DOMAIN tables.FOOD_STARTERS_BY_COUNTRY = DOMAIN FOOD_STARTERS_BY_COUNTRY
    /\ \A r \in DOMAIN RIDE_HAILING_BY_REGION :
          tables.RIDE_HAILING_BY_REGION[r] = RIDE_HAILING_BY_REGION[r]
    /\ \A c \in DOMAIN FOOD_STARTERS_BY_COUNTRY :
          tables.FOOD_STARTERS_BY_COUNTRY[c] = FOOD_STARTERS_BY_COUNTRY[c]

\* custom food items were added to a plan for Japan, whose starter list is
\* the table's list, and the plan was exported
C19_Witness ==
    /\ plan # None
    /\ pc = "crashed"
    /\ table_lists(inp) # {}
    /\ \E a \in table_lists(inp) : a.table = "FOOD_STARTERS_BY_COUNTRY" /\ a.cell = "japan"
    /\ CUSTOM_FOOD_KEY \in DOMAIN plan.food
    /\ plan.food[CUSTOM_FOOD_KEY] = <<"Ramen", "Mochi">>
    /\ plan.food["Local foods (starter list)"] = tables.FOOD_STARTERS_BY_COUNTRY["japan"]

\* the items the text area of the food tab holds
Entered == custom_items(form.custom_food)

\* the Markdown lines hold the items, in order, under the heading of the
\* custom additions
MarkdownHolds(lines, items) ==
    \E n \in 1..(Len(lines) - Len(items)) :
        /\ lines[n] = "### Your custom additions"
        /\ \A j \in 1..Len(items) : lines[n + j] = "- " \o items[j]

\* the exported JSON object holds the items under plan.food
JsonHolds(data, items) ==
    /\ "Your custom additions" \in DOMAIN data.plan.food
    /\ data.plan.food["Your custom additions"] = items

\* this step ends a script run
RunEndStep ==
    /\ pc \notin {"idle", "stopped", "done", "crashed"}
    /\ pc' \in {"idle", "stopped", "done", "crashed"}

\* C20: custom food items typed by the user (one per line, blank lines
\* dropped, each trimmed) are included in the export: when the script run
\* that follows the entry is over, a Markdown and a JSON export are offered
\* that hold the items, in input order, under the food category "Your
\* custom additions".
C20_CustomFoodInExports ==
    [][(Entered # <<>> /\ RunEndStep) =>
          /\ \E dl \in downloads' :
                dl.file_name = "travel_plan.md" /\ MarkdownHolds(dl.data, Entered)
          /\ \E dl \in downloads' :
                dl.file_name = "travel_plan.json" /\ JsonHolds(dl.data, Entered)
      ]_vars

--------------------------------------------------------------------------
(* The frame of enrich_plan_with_api, the key check and food_guide *)

\* enrich_plan_with_api is running
ENRICH_STEPS ==
    {"enrich", "google_geocode", "google_nearby", "google_text", "otm_geoname", "otm_section",
     "otm_hits", "enrich_end"}

\* the fields of a plan other than `enriched`
OTHER_FIELDS == {"packing", "health", "places", "transport", "food", "reminders"}

\* C21: a successful enrich_plan_with_api changes only the enriched field of
\* the plan: packing, health, places, transport, food and reminders of the
\* returned plan are those of the plan passed in, and the TravelInput is
\* unchanged; the enriched field is assigned once, when the function returns
\* after all sections have been fetched.
C21_EnrichChangesOnlyEnriched ==
    [][(pc \in ENRICH_STEPS) =>
          /\ inp' = inp
          /\ \A f \in OTHER_FIELDS : plan'[f] = plan[f]
          /\ plan.enriched = EmptyDict
          /\ pc = "enrich_end" =>
                /\ pc' = "tabs"
                /\ plan'.enriched = enr.enriched
                /\ DOMAIN plan'.enriched = {enr.queries[k].section : k \in 1..Len(enr.queries)}
                /\ ~EnrichFailed'
          /\ pc # "enrich_end" => plan'.enriched = EmptyDict
      ]_vars

\* Google Places has returned places for a request: the plan holds them and
\* still has the four reminders
C21_Witness ==
    /\ pc = "tabs"
    /\ ~EnrichFailed
    /\ form.provider = "Google Places (New)"
    /\ plan # None
    /\ "Top attractions" \in DOMAIN plan.enriched
    /\ Len(plan.enriched["Top attractions"]) >= 3
    /\ plan.reminders = REMINDERS
    /\ inp = TravelInput(form)


\* the key holds nothing but whitespace
BlankKey(k) == \A i \in 1..Len(k) : Ch(k, i) \in {" ", "\t", "\n"}

\* the message of the error raised for a missing key of each API provider
KEY_ERROR ==
    [p \in {"Google Places (New)", "OpenTripMap"} |->
       IF p = "Google Places (New)"
       THEN "Google Places API key is required."
       ELSE "OpenTripMap API key is required."]

\* enrich_plan_with_api is about to be called with an API provider and a
\* key that is empty or whitespace-only
CalledWithoutKey ==
    /\ pc = "enrich"
    /\ form.provider \in DOMAIN KEY_ERROR
    /\ BlankKey(form.api_key)

\* C22: with provider OpenTripMap or Google Places (New) and an API key that
\* is empty or whitespace-only, enrich_plan_with_api raises an error naming
\* the required key before any HTTP request is issued, and the plan is left
\* unchanged: the call ends in one step with the warning of that provider,
\* no API function called, no request sent, nothing cached, and the plan of
\* generate_plan with an empty `enriched`.
C22_MissingKeyRaisesFirst ==
    [][CalledWithoutKey =>
          /\ pc' = "tabs"
          /\ messages' = Append(messages, st_warning(KEY_ERROR[form.provider]))
          /\ calls' = Append(calls, "enrich_plan_with_api")
          /\ http' = http
          /\ api' = api
          /\ cache' = cache
          /\ plan' = plan
          /\ plan'.enriched = EmptyDict
      ]_vars

\* the call with a missing key has raised, for each provider and for the
\* empty and the whitespace-only key
KeyErrorShown(provider, key) ==
    /\ pc = "tabs"
    /\ form.provider = provider
    /\ form.api_key = key
    /\ messages = <<st_warning(KEY_ERROR[provider])>>
    /\ calls[Len(calls)] = "enrich_plan_with_api"
    /\ plan # None
    /\ plan.enriched = EmptyDict

C22_Witness ==
    /\ KeyErrorShown("OpenTripMap", " ")
    /\ runs = 2

\* food_guide has returned
FoodReturned == Returned /\ ret.fn = "food_guide"

\* the positions, in table order, of the country keys found in the
\* normalized destination
MatchingKeys(destination) ==
    {i \in 1..Len(FOOD_STARTERS_BY_COUNTRY_KEYS) :
       Contains(FOOD_STARTERS_BY_COUNTRY_KEYS[i], normalize_text(destination))}

\* the text holds a character that is not whitespace
NonBlank(s) == ~BlankKey(s)

\* C23: for every destination and dietary note, food_guide returns exactly
\* the two categories "Local foods (starter list)" and "Food game plan", and
\* the starter list is never empty: it is the table entry of the first
\* country key (in table order) that is a substring of the normalized
\* destination, or the five generic placeholder items when no country key
\* matches; the "Diet note: ..." line is appended to the game plan exactly
\* when the dietary note is non-blank.
C23_FoodGuide ==
    FoodReturned =>
        LET starter == ret.value["Local foods (starter list)"]
            game == ret.value["Food game plan"]
            hits == MatchingKeys(arg.destination)
            DietLines == {k \in 1..Len(game) : Len(game[k]) >= 11 /\ SubSeq(game[k], 1, 11) = "Diet note: "}
        IN /\ DOMAIN ret.value = {"Local foods (starter list)", "Food game plan"}
           /\ starter # <<>>
           /\ IF hits = {}
              THEN /\ starter = GENERIC_STARTERS
                   /\ Len(starter) = 5
              ELSE \E i \in hits :
                      /\ \A j \in hits : i <= j
                      /\ starter = FOOD_STARTERS_BY_COUNTRY[FOOD_STARTERS_BY_COUNTRY_KEYS[i]]
           /\ IF NonBlank(arg.dietary_notes)
              THEN /\ Len(game) = 3
                   /\ DietLines = {3}
                   /\ game[3] = "Diet note: " \o strip(arg.dietary_notes)
              ELSE /\ Len(game) = 2
                   /\ DietLines = {}

\* a destination naming France before Italy gets the entry of Italy, the
\* earlier key of the table, and a note of whitespace adds no line
C23_Witness ==
    /\ FoodReturned
    /\ arg.destination = "Nice, France / Turin, Italy"
    /\ arg.dietary_notes = " \t\n"
    /\ ret.value["Local foods (starter list)"][1] = "Regional pasta specialty"
    /\ Len(ret.value["Food game plan"]) = 2
====
